---- MODULE Spec2Model ----
(***************************************************************************)
(* A model of tools/hc_core.py: the HC-05 / HC-06 pairing engine.          *)
(*                                                                         *)
(* Text (commands, replies, pins, names) is a sequence of tokens; a token  *)
(* is a string.  Hex digits, ':' and ',' are always single-character      *)
(* tokens, so the address pattern is matched character by character.      *)
(* Python's None / "" (both falsy) is the empty sequence <<>> for text and *)
(* for an address pair, and "" for a port.                                 *)
(***************************************************************************)
EXTENDS Integers, Sequences, FiniteSets, TLC

(***************************************************************************)
(* Bounds of the model                                                     *)
(***************************************************************************)
\* how many fields of the caller's PairFlags differ from PairFlags()
MaxDeviations == 2
\* longest operator extra-command list per role
MaxExtra == 1
\* largest retry budget send_command is called with on its own
MaxRetries == 2
\* longest extra-command list per role a builder is called with on its own
MaxBuildExtra == 2

(***************************************************************************)
(* Characters and text helpers                                             *)
(***************************************************************************)
AsciiDigits == {"0", "1", "2", "3", "4", "5", "6", "7", "8", "9"}
HexLetters == {"a", "b", "c", "d", "e", "f", "A", "B", "C", "D", "E", "F"}
\* "SUP2" is the character U+00B2 (superscript two): str.isdigit() accepts
\* it, it is not a decimal digit and it is not ASCII.
NonAsciiDigits == {"SUP2"}

\* str.isdigit(): every character is a digit and there is at least one
isdigit(s) == Len(s) > 0 /\ \A i \in 1..Len(s) : s[i] \in AsciiDigits \cup NonAsciiDigits

\* the reading "exactly 4 decimal digits"
IsFourDecimalDigits(s) == Len(s) = 4 /\ \A i \in 1..4 : s[i] \in AsciiDigits

\* str.upper() on the tokens the replies are made of
UpperToken(c) ==
    CASE c = "ok" -> "OK"
      [] c = "Ok" -> "OK"
      [] c = "+role:0" -> "+ROLE:0"
      [] OTHER -> c

MutContainsOKExactCase(resp) == \E i \in 1..Len(resp) : resp[i] = "OK"

\* "OK" in response.upper()
ContainsOK(resp) == \E i \in 1..Len(resp) : UpperToken(resp[i]) = "OK"

MutContainsROLEExactCase(resp) == \E i \in 1..Len(resp) : resp[i] = "+ROLE:0"

\* "ROLE" in role_resp.upper()
ContainsROLE(resp) == \E i \in 1..Len(resp) : UpperToken(resp[i]) = "+ROLE:0"

(***************************************************************************)
(* parse_addr_response                                                     *)
(***************************************************************************)
G1 == 4
G2 == 2
G3 == 6

MutIsHexUpperOnly(c) == c \in AsciiDigits \cup {"A", "B", "C", "D", "E", "F"}

\* [0-9A-F] under re.IGNORECASE
IsHex(c) == c \in AsciiDigits \cup HexLetters

\* the pattern ([0-9A-F]{4}):([0-9A-F]{2}):([0-9A-F]{6}), IGNORECASE,
\* matches at position i of resp
AddrMatchAt(resp, i) ==
    /\ i >= 1
    /\ i + G1 + G2 + G3 + 1 <= Len(resp)
    /\ \A k \in 0..(G1 - 1) : IsHex(resp[i + k])
    /\ resp[i + G1] = ":"
    /\ \A k \in 1..G2 : IsHex(resp[i + G1 + k])
    /\ resp[i + G1 + G2 + 1] = ":"
    /\ \A k \in 1..G3 : IsHex(resp[i + G1 + G2 + 1 + k])

\* re.search: the leftmost match, 0 when there is none
AddrSearch(resp) ==
    IF \E i \in 1..Len(resp) : AddrMatchAt(resp, i)
    THEN CHOOSE i \in 1..Len(resp) :
            /\ AddrMatchAt(resp, i)
            /\ \A j \in 1..(i - 1) : ~AddrMatchAt(resp, j)
    ELSE 0

\* returns <<colon, comma>>, or <<>> for None
parse_addr_response(resp) ==
    LET i == AddrSearch(resp) IN
    IF i = 0 THEN <<>>
    ELSE LET a == SubSeq(resp, i, i + G1 - 1)
             b == SubSeq(resp, i + G1 + 1, i + G1 + G2)
             c == SubSeq(resp, i + G1 + G2 + 2, i + G1 + G2 + G3 + 1)
         IN << a \o <<":">> \o b \o <<":">> \o c,
               a \o <<",">> \o b \o <<",">> \o c >>

(***************************************************************************)
(* Data model: SerialProfile, DetectionResult, Step, PairFlags, PairContext*)
(***************************************************************************)
DETECTION_PROFILES ==
    << [baud |-> 38400, line_ending |-> "crlf"],
       [baud |-> 9600, line_ending |-> "none"],
       [baud |-> 38400, line_ending |-> "none"],
       [baud |-> 9600, line_ending |-> "crlf"] >>

\* detect_module returned None
NoDetection == [module |-> "none", profile |-> 0]

HC06_BAUD_MAP ==
    (1200 :> "1") @@ (2400 :> "2") @@ (4800 :> "3") @@ (9600 :> "4") @@
    (19200 :> "5") @@ (38400 :> "6") @@ (57600 :> "7") @@ (115200 :> "8") @@
    (230400 :> "9") @@ (460800 :> "A") @@ (921600 :> "B") @@ (1382400 :> "C")

\* the field defaults of the Step dataclass
StepDefaults ==
    [critical |-> FALSE, optional |-> FALSE, expect_ok |-> TRUE, retries |-> 1,
     kind |-> "command", category |-> "basic", timeout_ms |-> 2000]

NoOverrides == [kind |-> "command"]

MutStepNeverCritical(id, command, overrides) ==
    [critical |-> FALSE] @@ overrides @@ [id |-> id, command |-> command] @@ StepDefaults

\* Step(id, label, command, **overrides)
Step(id, command, overrides) ==
    overrides @@ [id |-> id, command |-> command] @@ StepDefaults

\* PairFlags()
DefaultFlags ==
    [basic |-> TRUE, skip_steps |-> {}, extra_master_cmds |-> <<>>,
     extra_slave_cmds |-> <<>>, advanced |-> FALSE, interactive |-> FALSE,
     dry_run |-> FALSE, show_plan |-> FALSE, no_orlg |-> FALSE,
     no_rmaad |-> FALSE, no_pair |-> FALSE, no_link |-> FALSE]

\* PairContext()
NewContext == [slave_addr |-> <<>>, master_bind_ok |-> FALSE, master_link_ok |-> FALSE]

ADDR_PLACEHOLDER == "{addr}"

(***************************************************************************)
(* Plan builders                                                           *)
(***************************************************************************)
\* "include", "exclude", or "raise" (PairPlanError)
MutIncludeIgnoresCritical(step, flags) ==
    IF step.category = "basic" /\ ~flags.basic THEN "exclude"
    ELSE IF step.id \in flags.skip_steps THEN "exclude"
    ELSE "include"

_should_include_step(step, flags) ==
    IF step.category = "basic" /\ ~flags.basic THEN "exclude"
    ELSE IF step.id \in flags.skip_steps
         THEN IF step.critical /\ flags.basic THEN "raise" ELSE "exclude"
    ELSE "include"

IncludedStep(step, flags) == _should_include_step(step, flags) = "include"

MutFilterKeepsLastFirst(steps, flags) ==
    LET keep(s) == IncludedStep(s, flags)
        kept == SelectSeq(steps, keep)
    IN IF kept = <<>> THEN <<>>
       ELSE <<kept[Len(kept)]>> \o SubSeq(kept, 1, Len(kept) - 1)

\* the filter loop of both builders
FilterSteps(steps, flags) ==
    LET keep(s) == IncludedStep(s, flags) IN SelectSeq(steps, keep)

FilterRaises(steps, flags) ==
    \E i \in 1..Len(steps) : _should_include_step(steps[i], flags) = "raise"

ExtraSlaveIds == <<"extra-slave-1", "extra-slave-2", "extra-slave-3", "extra-slave-4">>
ExtraMasterIds == <<"extra-master-1", "extra-master-2", "extra-master-3", "extra-master-4">>

MutExtraStepsAckRequired(cmds, ids, timeout) ==
    [i \in 1..Len(cmds) |->
        Step(ids[i], cmds[i],
             [optional |-> TRUE, category |-> "extra", timeout_ms |-> timeout])]

ExtraSteps(cmds, ids, timeout) ==
    [i \in 1..Len(cmds) |->
        Step(ids[i], cmds[i],
             [expect_ok |-> FALSE, optional |-> TRUE, category |-> "extra",
              timeout_ms |-> timeout])]

PlanError(msg) == [ok |-> FALSE, err |-> msg, plan |-> <<>>]
PlanOk(plan) == [ok |-> TRUE, err |-> "", plan |-> plan]

MutOptAlways(cond, step) == <<step>>

Opt(cond, step) == IF cond THEN <<step>> ELSE <<>>

\* the basic steps of build_slave_plan, before the skip filter
SlaveBasicSteps(module, name, pin, baud, flags, require_addr) ==
    IF ~flags.basic THEN <<>>
    ELSE
      <<Step("at", <<"AT">>, [critical |-> TRUE, retries |-> 2])>>
      \o Opt(module = "hc05" /\ ~flags.no_orlg,
             Step("orlg", <<"AT+ORGL">>, [optional |-> TRUE, timeout_ms |-> 3000]))
      \o Opt(module = "hc05", Step("role0", <<"AT+ROLE=0">>, [critical |-> TRUE]))
      \o Opt(name # <<>>, Step("name", <<"AT+NAME=">> \o name, NoOverrides))
      \o Opt(pin # <<>>, Step("pin", <<"AT+PSWD=">> \o pin, NoOverrides))
      \o (IF module = "hc05"
          THEN << Step("uart", <<"AT+UART=", ToString(baud), ",0,0">>, [critical |-> TRUE]),
                  Step("addr", <<"AT+ADDR?">>,
                       [critical |-> require_addr, optional |-> ~require_addr,
                        expect_ok |-> FALSE]) >>
          ELSE << Step("uart",
                       <<"AT+BAUD", IF baud \in DOMAIN HC06_BAUD_MAP
                                    THEN HC06_BAUD_MAP[baud] ELSE "?">>,
                       [critical |-> TRUE]),
                  Step("addr", <<"AT+ADDR?">>,
                       [critical |-> FALSE, optional |-> TRUE, expect_ok |-> FALSE]) >>)

MutSlaveBaudUnchecked(module, baud, flags) == FALSE

\* lines 562-565
SlaveBaudUnsupported(module, baud, flags) ==
    flags.basic /\ module # "hc05" /\ baud \notin DOMAIN HC06_BAUD_MAP

build_slave_plan(detection, name, pin, baud, flags, require_addr) ==
    LET steps == SlaveBasicSteps(detection.module, name, pin, baud, flags, require_addr) IN
    IF SlaveBaudUnsupported(detection.module, baud, flags)
    THEN PlanError("baud")
    ELSE IF FilterRaises(steps, flags) THEN PlanError("skip_critical")
    ELSE PlanOk(FilterSteps(steps, flags)
                \o ExtraSteps(flags.extra_slave_cmds, ExtraSlaveIds, 2500))

\* the basic steps of build_master_plan, before the skip filter
MasterBasicSteps(name, pin, baud, flags, slave_addr, want_scan, require_link) ==
    LET addr_text == IF slave_addr # <<>> THEN slave_addr[2] ELSE <<ADDR_PLACEHOLDER>> IN
    IF ~flags.basic THEN <<>>
    ELSE
      << Step("at", <<"AT">>, [critical |-> TRUE, retries |-> 2]),
         Step("role1", <<"AT+ROLE=1">>, [critical |-> TRUE]),
         Step("cmode", <<"AT+CMODE=0">>, [critical |-> TRUE]) >>
      \o Opt(name # <<>>, Step("name", <<"AT+NAME=">> \o name, NoOverrides))
      \o Opt(pin # <<>>, Step("pin", <<"AT+PSWD=">> \o pin, NoOverrides))
      \o <<Step("uart", <<"AT+UART=", ToString(baud), ",0,0">>, [critical |-> TRUE])>>
      \o Opt(~flags.no_rmaad,
             Step("rmaad", <<"AT+RMAAD">>, [optional |-> TRUE, timeout_ms |-> 5000]))
      \o <<Step("init", <<"AT+INIT">>, [optional |-> TRUE, timeout_ms |-> 8000])>>
      \o Opt(want_scan /\ slave_addr = <<>>,
             Step("inq", <<"AT+INQ">>,
                  [critical |-> TRUE, expect_ok |-> FALSE, kind |-> "inq",
                   timeout_ms |-> 9000]))
      \o Opt(~flags.no_pair,
             Step("pair", <<"AT+PAIR=">> \o addr_text \o <<",20">>,
                  [critical |-> FALSE, optional |-> TRUE, timeout_ms |-> 25000]))
      \o <<Step("bind", <<"AT+BIND=">> \o addr_text,
                [critical |-> TRUE, timeout_ms |-> 4000])>>
      \o Opt(~flags.no_link,
             Step("link", <<"AT+LINK=">> \o addr_text,
                  [critical |-> require_link, optional |-> ~require_link,
                   timeout_ms |-> 15000]))
      \o <<Step("reset", <<"AT+RESET">>,
                [optional |-> TRUE, expect_ok |-> FALSE, timeout_ms |-> 3000])>>

MutMasterModuleNotRejected(detection) == FALSE

\* lines 614-615
MasterModuleRejected(detection) == detection.module # "hc05"

build_master_plan(detection, name, pin, baud, flags, slave_addr, want_scan, require_link) ==
    LET steps == MasterBasicSteps(name, pin, baud, flags, slave_addr, want_scan, require_link) IN
    IF MasterModuleRejected(detection) THEN PlanError("master_not_hc05")
    ELSE IF FilterRaises(steps, flags) THEN PlanError("skip_critical")
    ELSE PlanOk(FilterSteps(steps, flags)
                \o ExtraSteps(flags.extra_master_cmds, ExtraMasterIds, 3000))

(***************************************************************************)
(* send_command: one exchange, as a function of what the link does at each *)
(* attempt.  An event is a reply text, a failed write ("wfail"), a         *)
(* SerialException outside the write ("exc": it propagates to the caller's *)
(* handler), or the stop event being found set at the attempt's check      *)
(* ("cancel").                                                             *)
(***************************************************************************)
ReplyTexts == { <<"OK">>, <<"ok">>, <<"ERROR:(16)">>, <<>> }

ADDR1 == <<"1", "2", "3", "4", ":", "5", "6", ":", "a", "b", "c", "d", "e", "f">>
ADDR2 == <<"9", "8", "D", "3", ":", "3", "1", ":", "F", "D", "1", "2", "3", "4">>

\* replies to AT+ADDR?: a full address, an address whose groups the
\* firmware printed without leading zeros, an error, nothing
AddrReplies ==
    { <<"+ADDR:">> \o ADDR1 \o <<"\r\n", "OK">>,
      <<"+ADDR:", "2", "1", ":", "1", "3", ":", "1", "a", "b", "7", "\r\n", "OK">>,
      <<"ERROR:(0)">>,
      <<>> }

\* what a scan collects: the parsed lines, in order
ScanResults ==
    { <<>>,
      <<parse_addr_response(<<"+INQ:">> \o ADDR1 \o <<",", "1F00", ",", "7FFF">>)>>,
      <<parse_addr_response(<<"+INQ:">> \o ADDR2 \o <<",", "1F00", ",", "7FFF">>),
        parse_addr_response(<<"+INQ:">> \o ADDR1 \o <<",", "1F00", ",", "7FFF">>)>> }

EventsOf(texts) ==
    {[kind |-> "reply", text |-> t] : t \in texts}
    \cup {[kind |-> k, text |-> <<>>] : k \in {"wfail", "exc", "cancel"}}

\* the result of an exchange: ok and the last response, with what happened
\* on the way: the number of writes attempted, whether an exception left
\* the function, whether the stop event was seen
RECURSIVE SendAttempts(_, _, _, _, _, _)
SendAttempts(expect_ok, retries, events, attempt, response, writes) ==
    IF attempt > retries
    THEN [ok |-> FALSE, resp |-> response, writes |-> writes, exc |-> FALSE, cancel |-> FALSE]
    ELSE LET ev == events[attempt] IN
         CASE ev.kind = "cancel" ->
                [ok |-> FALSE, resp |-> response, writes |-> writes, exc |-> FALSE, cancel |-> TRUE]
           [] ev.kind = "exc" ->
                [ok |-> FALSE, resp |-> response, writes |-> writes + 1, exc |-> TRUE, cancel |-> FALSE]
           [] ev.kind = "wfail" ->
                [ok |-> FALSE, resp |-> response, writes |-> writes + 1, exc |-> FALSE, cancel |-> FALSE]
           [] OTHER ->
                IF expect_ok /\ ~ContainsOK(ev.text)
                THEN SendAttempts(expect_ok, retries, events, attempt + 1, ev.text, writes + 1)
                ELSE [ok |-> TRUE, resp |-> ev.text, writes |-> writes + 1,
                      exc |-> FALSE, cancel |-> FALSE]

send_command(expect_ok, retries, events) ==
    SendAttempts(expect_ok, retries, events, 1, <<>>, 0)

MutAfterKeepsFirst(first, second) ==
    [first EXCEPT !.writes = first.writes + second.writes]

\* a second exchange of the same step after a first one
After(first, second) ==
    [second EXCEPT !.writes = first.writes + second.writes]

(***************************************************************************)
(* _execute_step                                                           *)
(***************************************************************************)
MutNoPlaceholder(cmd) == FALSE

\* "{addr}" in cmd
HasPlaceholder(cmd) == \E i \in 1..Len(cmd) : cmd[i] = ADDR_PLACEHOLDER

RECURSIVE ReplacePlaceholder(_, _)
ReplacePlaceholder(cmd, text) ==
    IF cmd = <<>> THEN <<>>
    ELSE (IF Head(cmd) = ADDR_PLACEHOLDER THEN text ELSE <<Head(cmd)>>)
         \o ReplacePlaceholder(Tail(cmd), text)

MutWrittenCommandKeepsPlaceholder(step, ctx) == step.command

\* lines 783-788: the command text of a step that is not a scan, when the
\* context holds the address its placeholder needs
WrittenCommand(step, ctx) ==
    IF HasPlaceholder(step.command) /\ ctx.slave_addr # <<>>
    THEN ReplacePlaceholder(step.command, ctx.slave_addr[2])
    ELSE step.command

MutStepOutcomeAlwaysOk(ok, ctx, x) ==
    [ok |-> TRUE, ctx |-> ctx, writes |-> x.writes, exc |-> x.exc, cancel |-> x.cancel,
     acked |-> x.ok]

MutStepOutcomeStrict(ok, ctx, x) ==
    [ok |-> x.ok, ctx |-> ctx, writes |-> x.writes, exc |-> x.exc, cancel |-> x.cancel,
     acked |-> x.ok]

\* the outcome of a step: the value _execute_step returns, the context it
\* leaves, and what happened on the way
StepOutcome(ok, ctx, x) ==
    [ok |-> ok, ctx |-> ctx, writes |-> x.writes, exc |-> x.exc, cancel |-> x.cancel,
     acked |-> x.ok]

NoExchange == [ok |-> FALSE, resp |-> <<>>, writes |-> 0, exc |-> FALSE, cancel |-> FALSE]

MutInqRecordsFirst(ctx, scan, selected) ==
    LET made == [NoExchange EXCEPT !.writes = 1]
        with(o) == o @@ [scan |-> scan, selected |-> selected]
    IN IF ctx.slave_addr # <<>> THEN StepOutcome(TRUE, ctx, NoExchange)
       ELSE IF scan = <<>> THEN with(StepOutcome(FALSE, ctx, made))
       ELSE IF selected = <<>> THEN with(StepOutcome(FALSE, ctx, made))
       ELSE with(StepOutcome(TRUE, [ctx EXCEPT !.slave_addr = scan[1]], made))

\* lines 767-781: the scan step; scan is what _inquire_addresses returns,
\* selected what choose_addr_cb answers (addrs[0] without a callback).  The
\* outcome also tells what was collected and selected, when a scan was made.
ExecuteInq(ctx, scan, selected) ==
    LET made == [NoExchange EXCEPT !.writes = 1]
        with(o) == o @@ [scan |-> scan, selected |-> selected]
    IN IF ctx.slave_addr # <<>> THEN StepOutcome(TRUE, ctx, NoExchange)
       ELSE IF scan = <<>> THEN with(StepOutcome(FALSE, ctx, made))
       ELSE IF selected = <<>> THEN with(StepOutcome(FALSE, ctx, made))
       ELSE with(StepOutcome(TRUE, [ctx EXCEPT !.slave_addr = selected], made))

\* the answers of a selection callback: None, or one of the addresses
Selections(scan) == {<<>>} \cup {scan[i] : i \in 1..Len(scan)}

\* lines 897-901
MutRecordLinkAlways(step, ok, ctx) ==
    [ctx EXCEPT !.master_bind_ok = @ \/ (step.id = "bind" /\ ok),
                !.master_link_ok = @ \/ (step.id = "link")]

RecordBindLink(step, ok, ctx) ==
    [ctx EXCEPT !.master_bind_ok = @ \/ (step.id = "bind" /\ ok),
                !.master_link_ok = @ \/ (step.id = "link" /\ ok)]

\* lines 783-911: every step that is not a scan; e1 are the events of the
\* first exchange (one per attempt), e2 those of a fallback exchange
ExecuteCommand(step, module, ctx, baud_value, e1, e2) ==
    IF HasPlaceholder(step.command) /\ ctx.slave_addr = <<>>
    THEN StepOutcome(FALSE, ctx, NoExchange)
    ELSE
    CASE step.id \in {"pin", "name"} /\ (step.id = "pin" \/ module = "hc06") ->
            LET first == send_command(TRUE, 1, e1)
                second == send_command(TRUE, 1, e2)
                again == ~(first.ok \/ first.exc \/ first.cancel)
                x == IF again THEN After(first, second) ELSE first
                sent(e) == IF e.writes > 0 THEN <<e.ok>> ELSE <<>>
            IN StepOutcome(x.ok \/ step.optional, ctx, x)
               @@ [forms |-> sent(first) \o (IF again THEN sent(second) ELSE <<>>)]
      [] step.id = "name" ->
            LET x == send_command(TRUE, 1, e1)
            IN StepOutcome(x.ok \/ step.optional, ctx, x)
      [] step.id = "uart" ->
            IF module = "hc06" /\ baud_value \notin DOMAIN HC06_BAUD_MAP
            THEN StepOutcome(FALSE, ctx, NoExchange)
            ELSE LET x == send_command(step.expect_ok, step.retries, e1)
                 IN StepOutcome(x.ok \/ step.optional, ctx, x)
      [] step.id = "addr" ->
            LET x == send_command(FALSE, step.retries, e1)
                parsed == parse_addr_response(x.resp)
            IN IF parsed # <<>>
               THEN StepOutcome(TRUE, [ctx EXCEPT !.slave_addr = parsed], x)
               ELSE StepOutcome(~step.critical, ctx, x)
      [] OTHER ->
            LET x == send_command(step.expect_ok, step.retries, e1)
            IN StepOutcome(x.ok \/ step.optional, RecordBindLink(step, x.ok, ctx), x)

(***************************************************************************)
(* detect_module, as a function of what the port does at each profile:     *)
(* env[k] = [stop: the stop event is set when profile k is reached,        *)
(*           open: the port opens, at: the events of the AT exchange,      *)
(*           role: the event of the AT+ROLE? exchange]                     *)
(***************************************************************************)
Detected(module, k) == [module |-> module, profile |-> k]

\* lines 181-217: one turn of the loop over the profiles, for what the port
\* does at this profile.  result is "next" (continue), "none" (return None
\* or break), or the family returned.  A stop event found set inside the AT
\* exchange makes it return False; the loop continues and returns None at
\* its next check, or ends and returns None.
ProbeProfile(b) ==
    IF b.stop
    THEN [result |-> "none", opened |-> FALSE, writes |-> 0, cancel |-> TRUE, exc |-> FALSE]
    ELSE IF ~b.open
    THEN [result |-> "none", opened |-> FALSE, writes |-> 0, cancel |-> FALSE, exc |-> TRUE]
    ELSE LET at == send_command(TRUE, 2, b.at) IN
         IF at.exc \/ at.cancel
         THEN [result |-> "none", opened |-> TRUE, writes |-> at.writes,
               cancel |-> at.cancel, exc |-> at.exc]
         ELSE IF ~at.ok
         THEN [result |-> "next", opened |-> TRUE, writes |-> at.writes,
               cancel |-> FALSE, exc |-> FALSE]
         ELSE LET role == send_command(FALSE, 1, <<b.role>>) IN
              [result |-> IF role.exc THEN "none"
                          ELSE IF ContainsROLE(role.resp) THEN "hc05" ELSE "hc06",
               opened |-> TRUE, writes |-> at.writes + role.writes,
               cancel |-> role.cancel, exc |-> role.exc]

\* the turns of the loop taken from profile k on, in order
RECURSIVE DetectTrace(_, _)
DetectTrace(env, k) ==
    IF k > Len(DETECTION_PROFILES) THEN <<>>
    ELSE LET p == ProbeProfile(env[k]) IN
         <<p>> \o (IF p.result = "next" THEN DetectTrace(env, k + 1) ELSE <<>>)

DetectFrom(env, k) ==
    LET trace == DetectTrace(env, k)
        n == Len(trace)
    IN IF n = 0 THEN NoDetection
       ELSE IF trace[n].result \in {"next", "none"} THEN NoDetection
       ELSE Detected(trace[n].result, k + n - 1)

detect_module(env) == DetectFrom(env, 1)

\* whether detect_module tried to open the port at all
DetectTouchesPort(env) == ~env[1].stop

Reply(t) == [kind |-> "reply", text |-> t]

\* a module in AT mode that answers on one profile only; an HC-05 answers
\* the role query, an HC-06 does not know it
DeviceEnv(module, p) ==
    [k \in 1..Len(DETECTION_PROFILES) |->
        [stop |-> FALSE, open |-> TRUE,
         at |-> IF k = p THEN <<Reply(<<"OK">>), Reply(<<"OK">>)>>
                ELSE <<Reply(<<>>), Reply(<<>>)>>,
         role |-> IF module = "hc05" THEN Reply(<<"+ROLE:0", "\r\n", "OK">>)
                  ELSE Reply(<<>>)]]

\* a port that cannot be opened
DeadPortEnv ==
    [k \in 1..Len(DETECTION_PROFILES) |->
        [stop |-> FALSE, open |-> FALSE, at |-> <<Reply(<<>>), Reply(<<>>)>>,
         role |-> Reply(<<>>)]]

\* the stop event is already set
StoppedEnv ==
    [k \in 1..Len(DETECTION_PROFILES) |->
        [stop |-> TRUE, open |-> TRUE, at |-> <<Reply(<<>>), Reply(<<>>)>>,
         role |-> Reply(<<>>)]]

\* what is plugged into a port: nothing that answers, an HC-05 in its common
\* AT mode (profile 1), an HC-06 in its common AT mode (profile 2), or a
\* port that does not open
PortEnvs == { DeviceEnv("none", 0), DeviceEnv("hc05", 1), DeviceEnv("hc06", 2), DeadPortEnv }

(***************************************************************************)
(* _interactive_tune: the flags the operator's session leaves              *)
(***************************************************************************)
ExtraCmds == { <<"AT+VERSION?">>, <<"AT+BIND=", ADDR_PLACEHOLDER>> }

SkipIds == {"uart", "addr", "inq", "pair", "bind", "link"}

RECURSIVE SeqsUpTo(_, _)
SeqsUpTo(S, n) ==
    IF n = 0 THEN {<<>>}
    ELSE LET shorter == SeqsUpTo(S, n - 1) IN
         shorter \cup {Append(q, x) : q \in shorter, x \in S}

BoolDeviation(b) == IF b THEN 1 ELSE 0

\* in how many places the flags differ from PairFlags() (show_plan, which
\* only selects logging, aside)
Deviations(f) ==
    BoolDeviation(~f.basic) + BoolDeviation(f.advanced) + BoolDeviation(f.interactive)
    + BoolDeviation(f.dry_run) + BoolDeviation(f.no_orlg) + BoolDeviation(f.no_rmaad)
    + BoolDeviation(f.no_pair) + BoolDeviation(f.no_link)
    + Cardinality(f.skip_steps) + Len(f.extra_master_cmds) + Len(f.extra_slave_cmds)

WithinBounds(f) ==
    /\ Deviations(f) <= MaxDeviations
    /\ Len(f.extra_master_cmds) <= MaxExtra
    /\ Len(f.extra_slave_cmds) <= MaxExtra

BasicSteps(steps) == LET basic(s) == s.category = "basic" IN SelectSeq(steps, basic)

\* the ids choice "b" accepts: basic steps of the shown plan not flagged critical
Skippable(steps) ==
    {steps[i].id : i \in {j \in 1..Len(steps) :
                            steps[j].category = "basic" /\ ~steps[j].critical}}

\* phase is "SLAVE" or "MASTER"; skips are the ids added by choices "b",
\* extras the lines added by choices "d", no_basic whether the session
\* ended with choice "c"
TuneEdit(phase, flags, skips, extras, no_basic) ==
    [flags EXCEPT
        !.skip_steps = @ \cup skips,
        !.extra_slave_cmds = IF phase = "SLAVE" THEN @ \o extras ELSE @,
        !.extra_master_cmds = IF phase = "SLAVE" THEN @ ELSE @ \o extras,
        !.basic = IF no_basic THEN FALSE ELSE @]

_interactive_tune(phase, steps, flags) ==
    IF BasicSteps(steps) = <<>> THEN {flags}
    ELSE { f \in { TuneEdit(phase, flags, skips, extras, no_basic) :
                      skips \in SUBSET (Skippable(steps) \cap SkipIds),
                      extras \in SeqsUpTo(ExtraCmds, MaxExtra),
                      no_basic \in BOOLEAN } :
           WithinBounds(f) }

(***************************************************************************)
(* run_pair as a state machine                                             *)
(***************************************************************************)
VARIABLES
    args,           \* the keyword arguments of run_pair, as passed
    flags,          \* the caller's PairFlags object
    slave_flags,    \* run_pair's copy for the peripheral role
    master_flags,   \* run_pair's copy for the controller role
    slave_port,     \* the locals of run_pair ...
    master_port,
    slave_detect,
    master_detect,
    slave_plan,
    master_plan,
    require_link,
    context,        \* the PairContext of this attempt
    pc,             \* where run_pair is
    idx,            \* the plan executor's position in the plan it runs
    result,         \* "none" while running, then "PASS" (True) or "FAIL" (False)
    msg,            \* the last verdict line logged
    stop,           \* the stop event
    pair_cache,     \* the content of PAIR_CACHE_FILE
    transport,      \* history: which uses of a port have begun
    acked,          \* history: controller steps whose command was acknowledged
    io_fault,       \* history: a SerialException ended a phase
    unacked,        \* history: some step's command was not acknowledged
    fn_in,          \* the arguments of a function called on its own
    fn_out          \* what it returned

vars == <<args, flags, slave_flags, master_flags, slave_port, master_port,
          slave_detect, master_detect, slave_plan, master_plan, require_link,
          context, pc, idx, result, msg, stop, pair_cache, transport, acked,
          io_fault, unacked, fn_in, fn_out>>

\* the calls the model makes
CallShapes ==
    { [mode |-> "one", port |-> "COM1", slave_port |-> "", master_port |-> ""],
      [mode |-> "ONE", port |-> "", slave_port |-> "", master_port |-> ""],
      [mode |-> "one", port |-> "", slave_port |-> "", master_port |-> ""],
      [mode |-> "two", port |-> "", slave_port |-> "COM1", master_port |-> "COM2"],
      [mode |-> "two", port |-> "", slave_port |-> "COM1", master_port |-> "COM1"],
      [mode |-> "two", port |-> "", slave_port |-> "COM1", master_port |-> ""],
      [mode |-> "two", port |-> "COM1", slave_port |-> "", master_port |-> "COM2"],
      [mode |-> "three", port |-> "COM1", slave_port |-> "COM1", master_port |-> "COM2"] }

Pins ==
    { <<"1", "2", "3", "4">>, <<"1", "2", "a", "4">>, <<"1", "2", "SUP2", "4">>,
      <<"1", "2", "3">> }

Bauds == {0, 9600, 12345}

\* <<name_slave, name_master>>
Names == { <<<<>>, <<>>>>, << <<"HC-S">>, <<"HC-M">> >> }

\* the flags run_pair is called with; the two flags that only drop an optional
\* step from a plan (no_orlg, no_rmaad) and advanced, which run_pair turns
\* into interactive, vary in the builders' own calls
FlagChoices ==
    { f \in [basic : BOOLEAN, skip_steps : SUBSET SkipIds,
             extra_master_cmds : SeqsUpTo(ExtraCmds, MaxExtra),
             extra_slave_cmds : SeqsUpTo(ExtraCmds, MaxExtra),
             advanced : {FALSE}, interactive : BOOLEAN, dry_run : BOOLEAN,
             show_plan : {FALSE}, no_orlg : {FALSE}, no_rmaad : {FALSE},
             no_pair : BOOLEAN, no_link : BOOLEAN] :
      WithinBounds(f) }

\* what the operator may answer to the swap prompt: "" keeps the port
SwapAnswers == {"", "COM2"}

NotCalled == [called |-> "none"]

Idle ==
    /\ slave_port = "" /\ master_port = ""
    /\ slave_detect = NoDetection /\ master_detect = NoDetection
    /\ slave_plan = <<>> /\ master_plan = <<>>
    /\ require_link = FALSE
    /\ context = NewContext
    /\ idx = 0
    /\ result = "none" /\ msg = ""
    /\ stop = FALSE
    /\ pair_cache = <<>>
    /\ transport = {} /\ acked = {} /\ io_fault = FALSE /\ unacked = FALSE

\* the nominal call: a valid shape, a 4-digit pin, 9600 baud, no names,
\* PairFlags()
NominalShapes == { sh \in CallShapes : sh.mode \in {"one", "two"} /\ sh.port # sh.slave_port
                                        /\ sh.master_port \in {"", "COM2"}
                                        /\ (sh.mode = "two" => sh.port = "") }
NominalPins == { <<"1", "2", "3", "4">> }

\* in how many places a call differs from a nominal one
CallDeviations(c) ==
    Deviations(c.flags)
    + BoolDeviation(c.shape \notin NominalShapes)
    + BoolDeviation(c.pin \notin NominalPins)
    + BoolDeviation(c.baud # 9600)
    + BoolDeviation(c.names # << <<>>, <<>> >>)

Calls ==
    { c \in [shape : CallShapes, pin : Pins, baud : Bauds, names : Names,
             flags : FlagChoices] :
      CallDeviations(c) <= MaxDeviations }

Init ==
    /\ \E c \in Calls :
         /\ args = [mode |-> c.shape.mode, port |-> c.shape.port,
                    slave_port |-> c.shape.slave_port,
                    master_port |-> c.shape.master_port,
                    name_slave |-> c.names[1], name_master |-> c.names[2],
                    pin |-> c.pin, baud |-> c.baud]
         /\ flags = c.flags
    /\ slave_flags = flags /\ master_flags = flags
    /\ Idle
    /\ pc = "validate"
    /\ fn_in = NotCalled /\ fn_out = NotCalled

lower(mode) == IF mode = "ONE" THEN "one" ELSE mode

actual_mode == lower(args.mode)

MutFailReturnsTrue(m) == pc' = "done" /\ result' = "PASS" /\ msg' = m

\* run_pair returns False after logging m
Fail(m) == pc' = "done" /\ result' = "FAIL" /\ msg' = m

\* a or b, on ports
OrElse(a, b) == IF a # "" THEN a ELSE b

\* lines 1037-1062: "" when the input is accepted, else the line logged
ValidationError(a) ==
    IF a.pin # <<>> /\ (~isdigit(a.pin) \/ Len(a.pin) # 4) THEN "PIN must be 4 digits."
    ELSE IF a.baud <= 0 THEN "Baud must be positive."
    ELSE IF lower(a.mode) \notin {"one", "two"} THEN "Mode must be 'one' or 'two'."
    ELSE IF lower(a.mode) = "one"
         THEN IF OrElse(a.port, OrElse(a.slave_port, a.master_port)) = ""
              THEN "Mode one requires --port (shared) or at least one port value."
              ELSE ""
    ELSE IF a.master_port = "" \/ a.slave_port = ""
         THEN "Mode two requires both --master-port and --slave-port."
    ELSE IF a.master_port = a.slave_port
         THEN "Master and slave ports must differ in mode two."
    ELSE ""

\* lines 1021-1066
ValidateInput ==
    /\ pc = "validate"
    /\ LET f == [flags EXCEPT
                    !.interactive = @ \/ flags.advanced,
                    !.show_plan = @ \/ flags.advanced \/ flags.dry_run
                                    \/ flags.interactive]
           err == ValidationError(args)
       IN /\ flags' = f
          /\ slave_flags' = f
          /\ master_flags' = f
          /\ IF err # ""
             THEN /\ Fail(err)
                  /\ UNCHANGED <<slave_port, master_port>>
             ELSE /\ pc' = "detect_slave"
                  /\ UNCHANGED <<result, msg>>
                  /\ IF actual_mode = "one"
                     THEN LET chosen == OrElse(args.port,
                                               OrElse(args.slave_port, args.master_port))
                          IN slave_port' = chosen /\ master_port' = chosen
                     ELSE slave_port' = args.slave_port /\ master_port' = args.master_port
    /\ UNCHANGED <<args, slave_detect, master_detect, slave_plan, master_plan,
                   require_link, context, idx, stop, pair_cache, transport, acked,
                   io_fault, unacked, fn_in, fn_out>>

\* the environment of one detection: the stop event wins over the port
DetectEnvs == IF stop THEN {StoppedEnv} ELSE PortEnvs

\* lines 1068-1077
DetectSlave ==
    /\ pc = "detect_slave"
    /\ \E env \in DetectEnvs :
         LET d == detect_module(env) IN
         /\ slave_detect' = d
         /\ transport' = IF DetectTouchesPort(env)
                         THEN transport \cup {"slave_detect"} ELSE transport
         /\ IF d = NoDetection THEN Fail("!! Detect failed on SLAVE.")
            ELSE IF actual_mode = "one" /\ d.module # "hc05"
                 THEN Fail("!! Mode one needs the SLAVE address (recommend SLAVE as HC-05).")
            ELSE pc' = "build_slave" /\ UNCHANGED <<result, msg>>
    /\ UNCHANGED <<args, flags, slave_flags, master_flags, slave_port, master_port,
                   master_detect, slave_plan, master_plan, require_link, context,
                   idx, stop, pair_cache, acked, io_fault, unacked, fn_in, fn_out>>

SlavePlanFor(f) ==
    build_slave_plan(slave_detect, args.name_slave, args.pin, args.baud, f,
                     actual_mode = "one")

\* lines 1079-1093
BuildSlavePlan ==
    /\ pc = "build_slave"
    /\ LET r == SlavePlanFor(slave_flags) IN
       IF ~r.ok THEN Fail(r.err) /\ UNCHANGED slave_plan
       ELSE /\ slave_plan' = r.plan
            /\ pc' = IF slave_flags.interactive THEN "tune_slave" ELSE "run_slave"
            /\ UNCHANGED <<result, msg>>
    /\ UNCHANGED <<args, flags, slave_flags, master_flags, slave_port, master_port,
                   slave_detect, master_detect, master_plan, require_link, context,
                   idx, stop, pair_cache, transport, acked, io_fault, unacked, fn_in, fn_out>>

\* lines 1095-1110
TuneSlave ==
    /\ pc = "tune_slave"
    /\ \E f \in _interactive_tune("SLAVE", slave_plan, slave_flags) :
         /\ slave_flags' = f
         /\ LET r == SlavePlanFor(f) IN
            IF ~r.ok THEN Fail(r.err) /\ UNCHANGED slave_plan
            ELSE /\ slave_plan' = r.plan
                 /\ pc' = "run_slave"
                 /\ UNCHANGED <<result, msg>>
    /\ UNCHANGED <<args, flags, master_flags, slave_port, master_port,
                   slave_detect, master_detect, master_plan, require_link, context,
                   idx, stop, pair_cache, transport, acked, io_fault, unacked, fn_in, fn_out>>

(***************************************************************************)
(* _run_plan_on_port                                                       *)
(***************************************************************************)
PhaseFailMsg(role) ==
    IF role = "slave" THEN "[FAIL] Could not configure SLAVE."
    ELSE "[FAIL] MASTER phase failed."

PlanOf(role) == IF role = "slave" THEN slave_plan ELSE master_plan
FlagsOf(role) == IF role = "slave" THEN slave_flags ELSE master_flags
DetectOf(role) == IF role = "slave" THEN slave_detect ELSE master_detect

\* lines 928-936: the dry-run exit, opening the port, entering the loop
RunPlan(role) ==
    /\ pc = "run_" \o role
    /\ IF FlagsOf(role).dry_run
       THEN /\ pc' = "after_" \o role
            /\ UNCHANGED <<idx, result, msg, transport, io_fault>>
       ELSE /\ transport' = transport \cup {role \o "_plan"}
            /\ \E opens \in BOOLEAN :
                 IF ~opens
                 THEN Fail(PhaseFailMsg(role)) /\ io_fault' = TRUE /\ UNCHANGED idx
                 ELSE /\ UNCHANGED <<result, msg, io_fault>>
                      /\ IF PlanOf(role) = <<>>
                         THEN pc' = "after_" \o role /\ UNCHANGED idx
                         ELSE pc' = "exec_" \o role /\ idx' = 1
    /\ UNCHANGED <<args, flags, slave_flags, master_flags, slave_port, master_port,
                   slave_detect, master_detect, slave_plan, master_plan, require_link,
                   context, stop, pair_cache, acked, unacked, fn_in, fn_out>>

\* the events of an exchange of `retries` attempts
EventSeqs(texts, retries) == [1..retries -> EventsOf(texts)]

\* the outcomes _execute_step can have for a step, over everything the link
\* and the operator can do
Outcomes(step, module, ctx, baud_value) ==
    IF step.kind = "inq"
    THEN UNION { { ExecuteInq(ctx, scan, selected) : selected \in Selections(scan) } :
                    scan \in ScanResults }
         \cup (IF ctx.slave_addr # <<>> THEN {}
               ELSE { [ok |-> FALSE, ctx |-> ctx, writes |-> 1, exc |-> TRUE,
                       cancel |-> FALSE, acked |-> FALSE] })
    ELSE IF step.id \in {"pin", "name"}
    THEN { ExecuteCommand(step, module, ctx, baud_value, e1, e2) :
              e1 \in EventSeqs(ReplyTexts, 1), e2 \in EventSeqs(ReplyTexts, 1) }
    ELSE { ExecuteCommand(step, module, ctx, baud_value, e1, e1) :
              e1 \in EventSeqs(IF step.id = "addr" THEN AddrReplies ELSE ReplyTexts,
                               step.retries) }

\* whether the step's command was acknowledged: a scan found and selected an
\* address, the address query returned one, any other command got its reply
StepAcked(step, o) ==
    IF step.kind = "inq" THEN o.ok
    ELSE IF step.id = "addr" THEN o.acked /\ o.ctx.slave_addr # <<>>
    ELSE o.acked

\* lines 937-953 with _execute_step (763-911): one turn of the loop
ExecStep(role) ==
    /\ pc = "exec_" \o role
    /\ LET step == PlanOf(role)[idx] IN
       IF stop
       THEN /\ Fail(PhaseFailMsg(role))
            /\ UNCHANGED <<idx, context, stop, acked, io_fault, unacked>>
       ELSE \E o \in Outcomes(step, DetectOf(role).module, context, args.baud) :
              /\ stop' = (stop \/ o.cancel)
              /\ io_fault' = (io_fault \/ o.exc)
              /\ unacked' = (unacked \/ ~StepAcked(step, o))
              /\ context' = o.ctx
              /\ acked' = IF step.id \in {"pair", "bind", "link"} /\ o.acked
                          THEN acked \cup {step.id} ELSE acked
              /\ IF ~o.ok \/ o.exc
                 THEN Fail(PhaseFailMsg(role)) /\ UNCHANGED idx
                 ELSE /\ UNCHANGED <<result, msg>>
                      /\ IF idx = Len(PlanOf(role))
                         THEN pc' = "after_" \o role /\ UNCHANGED idx
                         ELSE idx' = idx + 1 /\ UNCHANGED pc
    /\ UNCHANGED <<args, flags, slave_flags, master_flags, slave_port, master_port,
                   slave_detect, master_detect, slave_plan, master_plan, require_link,
                   pair_cache, transport, fn_in, fn_out>>

(***************************************************************************)
(* run_pair, continued                                                     *)
(***************************************************************************)
MutAddressNeverMissing(mode, ctx, f) == FALSE

\* line 1136
AddressMissing(mode, ctx, f) == mode = "one" /\ ctx.slave_addr = <<>> /\ ~f.dry_run

\* lines 1125-1141: the peripheral phase returned True
AfterSlave ==
    /\ pc = "after_slave"
    /\ pair_cache' = IF context.slave_addr # <<>> THEN context.slave_addr ELSE pair_cache
    /\ IF AddressMissing(actual_mode, context, slave_flags)
       THEN Fail("!! Mode one needs the SLAVE address (recommend SLAVE as HC-05).")
       ELSE /\ pc' = IF actual_mode = "one" /\ ~flags.dry_run
                     THEN "swap" ELSE "detect_master"
            /\ UNCHANGED <<result, msg>>
    /\ UNCHANGED <<args, flags, slave_flags, master_flags, slave_port, master_port,
                   slave_detect, master_detect, slave_plan, master_plan, require_link,
                   context, idx, stop, transport, acked, io_fault, unacked, fn_in, fn_out>>

\* lines 1141-1153
SwapPrompt ==
    /\ pc = "swap"
    /\ \E answer \in SwapAnswers : master_port' = OrElse(answer, master_port)
    /\ pc' = "detect_master"
    /\ UNCHANGED <<args, flags, slave_flags, master_flags, slave_port,
                   slave_detect, master_detect, slave_plan, master_plan, require_link,
                   context, idx, result, msg, stop, pair_cache, transport, acked,
                   io_fault, unacked, fn_in, fn_out>>

MutRequireLinkAlways(mode, f) == ~f.no_link

\* line 1167
RequireLink(mode, f) == mode = "two" /\ ~f.no_link

\* lines 1155-1167
DetectMaster ==
    /\ pc = "detect_master"
    /\ \E env \in DetectEnvs :
         LET d == detect_module(env) IN
         /\ master_detect' = d
         /\ transport' = IF DetectTouchesPort(env)
                         THEN transport \cup {"master_detect"} ELSE transport
         /\ IF d = NoDetection
            THEN Fail("!! Detect failed on MASTER.") /\ UNCHANGED require_link
            ELSE IF d.module # "hc05"
                 THEN /\ Fail("!! MASTER must be HC-05 (ROLE/PAIR/BIND/LINK).")
                      /\ UNCHANGED require_link
            ELSE /\ pc' = "build_master"
                 /\ require_link' = RequireLink(actual_mode, master_flags)
                 /\ UNCHANGED <<result, msg>>
    /\ UNCHANGED <<args, flags, slave_flags, master_flags, slave_port, master_port,
                   slave_detect, slave_plan, master_plan, context,
                   idx, stop, pair_cache, acked, io_fault, unacked, fn_in, fn_out>>

MutNeverScan(ctx) == FALSE

\* line 1177
WantScan(ctx) == ctx.slave_addr = <<>>

MutMasterPlanFromSlaveFlags(f) ==
    build_master_plan(master_detect, args.name_master, args.pin, args.baud, slave_flags,
                      context.slave_addr, WantScan(context), require_link)

MasterPlanFor(f) ==
    build_master_plan(master_detect, args.name_master, args.pin, args.baud, f,
                      context.slave_addr, WantScan(context), require_link)

\* lines 1169-1185
BuildMasterPlan ==
    /\ pc = "build_master"
    /\ LET r == MasterPlanFor(master_flags) IN
       IF ~r.ok THEN Fail(r.err) /\ UNCHANGED master_plan
       ELSE /\ master_plan' = r.plan
            /\ pc' = IF master_flags.interactive THEN "tune_master" ELSE "run_master"
            /\ UNCHANGED <<result, msg>>
    /\ UNCHANGED <<args, flags, slave_flags, master_flags, slave_port, master_port,
                   slave_detect, master_detect, slave_plan, require_link, context,
                   idx, stop, pair_cache, transport, acked, io_fault, unacked, fn_in, fn_out>>

\* lines 1187-1204
TuneMaster ==
    /\ pc = "tune_master"
    /\ \E f \in _interactive_tune("MASTER", master_plan, master_flags) :
         /\ master_flags' = f
         /\ LET r == MasterPlanFor(f) IN
            IF ~r.ok THEN Fail(r.err) /\ UNCHANGED master_plan
            ELSE /\ master_plan' = r.plan
                 /\ pc' = "run_master"
                 /\ UNCHANGED <<result, msg>>
    /\ UNCHANGED <<args, flags, slave_flags, slave_port, master_port,
                   slave_detect, master_detect, slave_plan, require_link, context,
                   idx, stop, pair_cache, transport, acked, io_fault, unacked, fn_in, fn_out>>

MSG_PAIRED == "[PASS] MASTER/SLAVE paired (LINK OK)."
MSG_LINK_REQUIRED == "[FAIL] LINK required but did not succeed."
MSG_DEFERRED == "[PASS] MASTER configured (BIND set). NEXT: power both modules; MASTER should auto-connect."

\* lines 1223-1239
MutVerdictIgnoresLink(required, ctx) ==
    IF ctx.master_link_ok THEN [result |-> "PASS", msg |-> MSG_PAIRED]
    ELSE [result |-> "PASS", msg |-> MSG_DEFERRED]

MutVerdictNeedsBind(required, ctx) ==
    IF ~ctx.master_bind_ok THEN [result |-> "FAIL", msg |-> MSG_LINK_REQUIRED]
    ELSE IF ctx.master_link_ok THEN [result |-> "PASS", msg |-> MSG_PAIRED]
    ELSE IF required THEN [result |-> "FAIL", msg |-> MSG_LINK_REQUIRED]
    ELSE [result |-> "PASS", msg |-> MSG_DEFERRED]

FinalOutcome(required, ctx) ==
    IF required
    THEN IF ctx.master_link_ok THEN [result |-> "PASS", msg |-> MSG_PAIRED]
         ELSE [result |-> "FAIL", msg |-> MSG_LINK_REQUIRED]
    ELSE IF ctx.master_link_ok THEN [result |-> "PASS", msg |-> MSG_PAIRED]
    ELSE [result |-> "PASS", msg |-> MSG_DEFERRED]

\* lines 1219-1239: the controller phase returned True
Verdict ==
    /\ pc = "after_master"
    /\ LET v == FinalOutcome(require_link, context) IN
       /\ result' = v.result
       /\ msg' = v.msg
    /\ pc' = "done"
    /\ UNCHANGED <<args, flags, slave_flags, master_flags, slave_port, master_port,
                   slave_detect, master_detect, slave_plan, master_plan, require_link,
                   context, idx, stop, pair_cache, transport, acked, io_fault,
                   unacked, fn_in, fn_out>>

\* the host sets the stop event (the GUI's Stop button); the event is read
\* only by detection and by the plan executor, so setting it at any other
\* point is the same as setting it when one of them is reached
Cancel ==
    /\ pc \in {"detect_slave", "exec_slave", "detect_master", "exec_master"}
    /\ ~stop
    /\ stop' = TRUE
    /\ UNCHANGED <<args, flags, slave_flags, master_flags, slave_port, master_port,
                   slave_detect, master_detect, slave_plan, master_plan, require_link,
                   context, pc, idx, result, msg, pair_cache, transport, acked,
                   io_fault, unacked, fn_in, fn_out>>

Next ==
    \/ ValidateInput
    \/ DetectSlave
    \/ BuildSlavePlan
    \/ TuneSlave
    \/ RunPlan("slave")
    \/ ExecStep("slave")
    \/ AfterSlave
    \/ SwapPrompt
    \/ DetectMaster
    \/ BuildMasterPlan
    \/ TuneMaster
    \/ RunPlan("master")
    \/ ExecStep("master")
    \/ Verdict
    \/ Cancel

Spec == Init /\ [][Next]_vars

(***************************************************************************)
(* The plan builders called on their own                                   *)
(***************************************************************************)
\* run_pair is not running
NoArgs ==
    [mode |-> "none", port |-> "", slave_port |-> "", master_port |-> "",
     name_slave |-> <<>>, name_master |-> <<>>, pin |-> <<>>, baud |-> 9600]

NotRunning ==
    /\ args = NoArgs
    /\ flags = DefaultFlags /\ slave_flags = DefaultFlags /\ master_flags = DefaultFlags
    /\ Idle

\* the ids a skip set may name: every id a builder gives a basic step, and
\* the id of the first extra command of each role
StepIds ==
    {"at", "orlg", "role0", "name", "pin", "uart", "addr", "role1", "cmode",
     "rmaad", "init", "inq", "pair", "bind", "link", "reset",
     "extra-slave-1", "extra-master-1"}

\* the boolean fields of PairFlags the builders read
BuilderToggles == {"basic", "no_orlg", "no_rmaad", "no_pair", "no_link", "dry_run"}

RECURSIVE SubsetsUpTo(_, _)
SubsetsUpTo(S, n) ==
    IF n = 0 THEN {{}}
    ELSE LET smaller == SubsetsUpTo(S, n - 1) IN
         smaller \cup {d \cup {x} : d \in smaller, x \in S}

\* PairFlags() with the toggles in d flipped and the ids in d skipped
FlagsWith(d, extra_slave, extra_master) ==
    [DefaultFlags EXCEPT
        !.basic = "basic" \notin d,
        !.no_orlg = "no_orlg" \in d,
        !.no_rmaad = "no_rmaad" \in d,
        !.no_pair = "no_pair" \in d,
        !.no_link = "no_link" \in d,
        !.dry_run = "dry_run" \in d,
        !.skip_steps = d \cap StepIds,
        !.extra_slave_cmds = extra_slave,
        !.extra_master_cmds = extra_master]

BuildBauds == DOMAIN HC06_BAUD_MAP \cup Bauds

\* the value arguments of a builder call, and in how many places they differ
\* from (no name, pin "1234", 9600, no extras)
BuildValues ==
    [name : {<<>>, <<"HC-S">>}, pin : {<<>>, <<"1", "2", "3", "4">>},
     baud : BuildBauds, extra_slave : SeqsUpTo(ExtraCmds, MaxBuildExtra),
     extra_master : SeqsUpTo(ExtraCmds, MaxBuildExtra)]

ValueDeviations(v) ==
    BoolDeviation(v.name # <<>>) + BoolDeviation(v.pin = <<>>)
    + BoolDeviation(v.baud # 9600) + Len(v.extra_slave) + Len(v.extra_master)

BuilderInputs ==
    UNION { { [name |-> v.name, pin |-> v.pin, baud |-> v.baud,
               flags |-> FlagsWith(d, v.extra_slave, v.extra_master)] :
                 d \in SubsetsUpTo(BuilderToggles \cup StepIds,
                                   MaxDeviations - ValueDeviations(v)) } :
            v \in {w \in BuildValues : ValueDeviations(w) <= MaxDeviations} }

\* a call of build_slave_plan
SlaveCall(m, i, ra) ==
    [called |-> "build_slave_plan", detection |-> Detected(m, 1), name |-> i.name,
     pin |-> i.pin, baud |-> i.baud, flags |-> i.flags, require_addr |-> ra,
     slave_addr |-> <<>>, want_scan |-> FALSE, require_link |-> FALSE]

\* a call of build_master_plan
MasterCall(m, i, sa, ws, rl) ==
    [called |-> "build_master_plan", detection |-> Detected(m, 1), name |-> i.name,
     pin |-> i.pin, baud |-> i.baud, flags |-> i.flags, require_addr |-> FALSE,
     slave_addr |-> sa, want_scan |-> ws, require_link |-> rl]

Returned(name, r) == [called |-> name, ok |-> r.ok, err |-> r.err, plan |-> r.plan]

InitBuild ==
    /\ NotRunning
    /\ pc = "fn"
    /\ \E i \in BuilderInputs, m \in {"hc05", "hc06"} :
         \/ \E ra \in BOOLEAN : fn_in = SlaveCall(m, i, ra)
         \/ \E sa \in {<<>>, parse_addr_response(ADDR1)}, ws \in BOOLEAN, rl \in BOOLEAN :
              fn_in = MasterCall(m, i, sa, ws, rl)
    /\ fn_out = NotCalled

CallBuildSlavePlan ==
    /\ pc = "fn"
    /\ fn_in.called = "build_slave_plan"
    /\ fn_out.called = "none"
    /\ fn_out' = Returned("build_slave_plan",
                          build_slave_plan(fn_in.detection, fn_in.name, fn_in.pin,
                                           fn_in.baud, fn_in.flags, fn_in.require_addr))
    /\ UNCHANGED <<args, flags, slave_flags, master_flags, slave_port, master_port,
                   slave_detect, master_detect, slave_plan, master_plan, require_link,
                   context, pc, idx, result, msg, stop, pair_cache, transport, acked,
                   io_fault, unacked, fn_in>>

CallBuildMasterPlan ==
    /\ pc = "fn"
    /\ fn_in.called = "build_master_plan"
    /\ fn_out.called = "none"
    /\ fn_out' = Returned("build_master_plan",
                          build_master_plan(fn_in.detection, fn_in.name, fn_in.pin,
                                            fn_in.baud, fn_in.flags, fn_in.slave_addr,
                                            fn_in.want_scan, fn_in.require_link))
    /\ UNCHANGED <<args, flags, slave_flags, master_flags, slave_port, master_port,
                   slave_detect, master_detect, slave_plan, master_plan, require_link,
                   context, pc, idx, result, msg, stop, pair_cache, transport, acked,
                   io_fault, unacked, fn_in>>

NextBuild ==
    \/ CallBuildSlavePlan
    \/ CallBuildMasterPlan

SpecBuild == InitBuild /\ [][NextBuild]_vars

(***************************************************************************)
(* parse_addr_response called on its own                                   *)
(***************************************************************************)
\* runs of characters: hex in lower case, hex in upper case, and a run with
\* a letter that is not a hex digit in its third place
LowerRun == <<"a", "1", "b", "2", "c", "3", "d">>
UpperRun == <<"A", "9", "B", "8", "C", "7", "D">>
TaintedRun == <<"f", "0", "g", "4", "e", "5", "6">>

Runs(n) == { SubSeq(r, 1, n) : r \in {LowerRun, UpperRun, TaintedRun} }

\* three groups around the lengths the pattern asks for, delimited by ':' or
\* ',', after and before other text
ParseTexts ==
    { prefix \o a \o <<s1>> \o b \o <<s2>> \o c \o suffix :
        prefix \in { <<>>, <<"+ADDR:">>, <<"x", "1">>,
                     <<"+INQ:">> \o ADDR2 \o <<",", "1F00", "\r\n", "+INQ:">> },
        a \in UNION { Runs(n) : n \in (G1 - 1)..(G1 + 1) },
        s1 \in {":"},
        b \in UNION { Runs(n) : n \in (G2 - 1)..(G2 + 1) },
        s2 \in {":", ","},
        c \in UNION { Runs(n) : n \in (G3 - 1)..(G3 + 1) },
        suffix \in { <<>>, <<"\r\n", "OK", "\r\n">> } }

InitParse ==
    /\ NotRunning
    /\ pc = "fn"
    /\ fn_in \in { [called |-> "parse_addr_response", text |-> t, again |-> FALSE] :
                     t \in ParseTexts }
    /\ fn_out = NotCalled

CallParse ==
    /\ pc = "fn"
    /\ fn_in.called = "parse_addr_response"
    /\ fn_out.called = "none"
    /\ fn_out' = [called |-> "parse_addr_response",
                  value |-> parse_addr_response(fn_in.text)]
    /\ UNCHANGED <<args, flags, slave_flags, master_flags, slave_port, master_port,
                   slave_detect, master_detect, slave_plan, master_plan, require_link,
                   context, pc, idx, result, msg, stop, pair_cache, transport, acked,
                   io_fault, unacked, fn_in>>

\* the caller parses the display form it was given
CallParseAgain ==
    /\ pc = "fn"
    /\ fn_out.called = "parse_addr_response"
    /\ fn_out.value # <<>>
    /\ ~fn_in.again
    /\ fn_in' = [called |-> "parse_addr_response", text |-> fn_out.value[1],
                 again |-> TRUE]
    /\ fn_out' = [called |-> "parse_addr_response",
                  value |-> parse_addr_response(fn_out.value[1])]
    /\ UNCHANGED <<args, flags, slave_flags, master_flags, slave_port, master_port,
                   slave_detect, master_detect, slave_plan, master_plan, require_link,
                   context, pc, idx, result, msg, stop, pair_cache, transport, acked,
                   io_fault, unacked>>

NextParse ==
    \/ CallParse
    \/ CallParseAgain

SpecParse == InitParse /\ [][NextParse]_vars

(***************************************************************************)
(* send_command called on its own                                          *)
(***************************************************************************)
\* the replies of the calls: those of ReplyTexts and a reply of several
\* lines that ends in the marker in mixed case
SendTexts == ReplyTexts \cup { <<"+ROLE:0", "\r\n", "Ok">> }

InitSend ==
    /\ NotRunning
    /\ pc = "fn"
    /\ \E expect_ok \in BOOLEAN, retries \in 0..MaxRetries :
         \E events \in EventSeqs(SendTexts, retries) :
            fn_in = [called |-> "send_command", expect_ok |-> expect_ok,
                     retries |-> retries, events |-> events]
    /\ fn_out = NotCalled

CallSendCommand ==
    /\ pc = "fn"
    /\ fn_in.called = "send_command"
    /\ fn_out.called = "none"
    /\ LET r == send_command(fn_in.expect_ok, fn_in.retries, fn_in.events) IN
       fn_out' = [called |-> "send_command", ok |-> r.ok, resp |-> r.resp,
                  writes |-> r.writes, exc |-> r.exc, cancel |-> r.cancel]
    /\ UNCHANGED <<args, flags, slave_flags, master_flags, slave_port, master_port,
                   slave_detect, master_detect, slave_plan, master_plan, require_link,
                   context, pc, idx, result, msg, stop, pair_cache, transport, acked,
                   io_fault, unacked, fn_in>>

NextSend == CallSendCommand

SpecSend == InitSend /\ [][NextSend]_vars

(***************************************************************************)
(* detect_module called on its own                                         *)
(***************************************************************************)
\* what the port does at one profile: silence; a family A module answering
\* at once, or at the second try and in lower case; a family B module with
\* no reply or a bare OK to the role query; a port that does not open; the
\* stop event set before the profile, or during the second try; a failed
\* write; a SerialException in the AT exchange or in the role query; the
\* stop event set before the role query
InitDetect ==
    /\ NotRunning
    /\ pc = "fn"
    /\ LET silent == <<Reply(<<>>), Reply(<<>>)>>
           acks == <<Reply(<<"OK">>), Reply(<<"OK">>)>>
           event(k) == [kind |-> k, text |-> <<>>]
           port(stopped, opens, at, role) ==
               [stop |-> stopped, open |-> opens, at |-> at, role |-> role]
           behaviours ==
               { port(FALSE, TRUE, silent, Reply(<<>>)),
                 port(FALSE, TRUE, acks, Reply(<<"+ROLE:0", "\r\n", "OK">>)),
                 port(FALSE, TRUE, <<Reply(<<>>), Reply(<<"ok">>)>>, Reply(<<"+role:0">>)),
                 port(FALSE, TRUE, acks, Reply(<<>>)),
                 port(FALSE, TRUE, acks, Reply(<<"OK">>)),
                 port(FALSE, FALSE, silent, Reply(<<>>)),
                 port(TRUE, TRUE, silent, Reply(<<>>)),
                 port(FALSE, TRUE, <<Reply(<<>>), event("cancel")>>, Reply(<<>>)),
                 port(FALSE, TRUE, <<event("wfail"), Reply(<<"OK">>)>>, Reply(<<>>)),
                 port(FALSE, TRUE, <<Reply(<<"ERROR:(0)">>), event("exc")>>, Reply(<<>>)),
                 port(FALSE, TRUE, acks, event("exc")),
                 port(FALSE, TRUE, acks, event("cancel")) }
       IN \E env \in [1..Len(DETECTION_PROFILES) -> behaviours] :
            fn_in = [called |-> "detect_module", env |-> env]
    /\ fn_out = NotCalled

\* lines 172-222; probes are the turns of its loop
CallDetectModule ==
    /\ pc = "fn"
    /\ fn_in.called = "detect_module"
    /\ fn_out.called = "none"
    /\ LET probes == DetectTrace(fn_in.env, 1) IN
       /\ fn_out' = [called |-> "detect_module", result |-> detect_module(fn_in.env),
                     probes |-> probes]
       /\ stop' = \E k \in 1..Len(probes) : probes[k].cancel
       /\ io_fault' = \E k \in 1..Len(probes) : probes[k].exc
       /\ transport' = IF DetectTouchesPort(fn_in.env) THEN {"detect"} ELSE {}
    /\ UNCHANGED <<args, flags, slave_flags, master_flags, slave_port, master_port,
                   slave_detect, master_detect, slave_plan, master_plan, require_link,
                   context, pc, idx, result, msg, pair_cache, acked, unacked, fn_in>>

SpecDetect == InitDetect /\ [][CallDetectModule]_vars

(***************************************************************************)
(* run_setup called on its own: single-device setup                        *)
(***************************************************************************)
\* how many of the exchanges of one call do not get the nominal reply OK
MaxSetupFaults == 1

\* lines 241-301.  port = [open: the port opens, ev: the event of each
\* exchange, stops: the checks between the exchanges that find the stop
\* event set].  The result is what was returned, the commands written in
\* order (one entry per attempt), and whether the unsupported rate was
\* reported.  A SerialException and a failed exchange both return False.
configure_hc05(name, pin, baud, role, port) ==
    LET ev == port.ev
        try(cmd, expect_ok, events) ==
            LET x == send_command(expect_ok, Len(events), events) IN
            [ok |-> x.ok, final |-> x.ok \/ x.exc \/ x.cancel,
             sent |-> [i \in 1..x.writes |-> cmd]]
        orelse(a, b) == IF a.final THEN a ELSE [b EXCEPT !.sent = a.sent \o b.sent]
        skipped == [ok |-> TRUE, final |-> TRUE, sent |-> <<>>]
        ret(ok, sent) == [ok |-> ok, sent |-> sent, rejected |-> FALSE]
        at == try("AT", TRUE, <<ev.at1, ev.at2>>)
        nm == IF name = <<>> THEN skipped ELSE try("AT+NAME=", TRUE, <<ev.name1>>)
        pn == IF pin = <<>> THEN skipped
              ELSE orelse(try("AT+PSWD=", TRUE, <<ev.pin1>>), try("AT+PIN=", TRUE, <<ev.pin2>>))
        ua == try("AT+UART=", TRUE, <<ev.uart>>)
        ro == try("AT+ROLE=", TRUE, <<ev.role>>)
        rs == try("AT+RESET", FALSE, <<ev.reset>>)
    IN IF ~port.open THEN ret(FALSE, <<>>)
       ELSE IF ~at.ok \/ "at" \in port.stops THEN ret(FALSE, at.sent)
       ELSE IF ~nm.ok \/ "name" \in port.stops THEN ret(FALSE, at.sent \o nm.sent)
       ELSE IF ~pn.ok \/ "pin" \in port.stops THEN ret(FALSE, at.sent \o nm.sent \o pn.sent)
       ELSE IF ~ua.ok THEN ret(FALSE, at.sent \o nm.sent \o pn.sent \o ua.sent)
       ELSE IF ~ro.ok THEN ret(FALSE, at.sent \o nm.sent \o pn.sent \o ua.sent \o ro.sent)
       ELSE ret(ev.reset.kind # "exc",
                at.sent \o nm.sent \o pn.sent \o ua.sent \o ro.sent \o rs.sent)

\* lines 304-367: the rate is looked up in HC06_BAUD_MAP at line 349, after
\* the name and pin exchanges
configure_hc06(name, pin, baud, port) ==
    LET ev == port.ev
        try(cmd, events) ==
            LET x == send_command(TRUE, Len(events), events) IN
            [ok |-> x.ok, final |-> x.ok \/ x.exc \/ x.cancel,
             sent |-> [i \in 1..x.writes |-> cmd]]
        orelse(a, b) == IF a.final THEN a ELSE [b EXCEPT !.sent = a.sent \o b.sent]
        skipped == [ok |-> TRUE, final |-> TRUE, sent |-> <<>>]
        ret(ok, sent, rejected) == [ok |-> ok, sent |-> sent, rejected |-> rejected]
        at == try("AT", <<ev.at1, ev.at2>>)
        nm == IF name = <<>> THEN skipped
              ELSE orelse(try("AT+NAME", <<ev.name1>>), try("AT+NAME=", <<ev.name2>>))
        pn == IF pin = <<>> THEN skipped
              ELSE orelse(try("AT+PIN", <<ev.pin1>>), try("AT+PSWD=", <<ev.pin2>>))
        bd == try("AT+BAUD", <<ev.uart>>)
    IN IF ~port.open THEN ret(FALSE, <<>>, FALSE)
       ELSE IF ~at.ok \/ "at" \in port.stops THEN ret(FALSE, at.sent, FALSE)
       ELSE IF ~nm.ok \/ "name" \in port.stops THEN ret(FALSE, at.sent \o nm.sent, FALSE)
       ELSE IF ~pn.ok \/ "pin" \in port.stops
       THEN ret(FALSE, at.sent \o nm.sent \o pn.sent, FALSE)
       ELSE IF baud \notin DOMAIN HC06_BAUD_MAP
       THEN ret(FALSE, at.sent \o nm.sent \o pn.sent, TRUE)
       ELSE ret(bd.ok, at.sent \o nm.sent \o pn.sent \o bd.sent, FALSE)

\* the calls: every module choice, with or without a name and a pin, a
\* supported, an unsupported and a zero rate, both roles; a port on which
\* nothing answers, a family A module at the first profile, a family B
\* module at the first or at the second profile; at most MaxSetupFaults of
\* the port not opening for the configuration, an exchange not getting OK
\* (silence, a failed write, a SerialException, the stop event found set),
\* a check between two exchanges finding the stop event set
InitSetup ==
    /\ NotRunning
    /\ pc = "fn"
    /\ LET silent == [stop |-> FALSE, open |-> TRUE,
                      at |-> <<Reply(<<>>), Reply(<<>>)>>, role |-> Reply(<<>>)]
           hc05 == [silent EXCEPT !.at = <<Reply(<<"OK">>), Reply(<<"OK">>)>>,
                                  !.role = Reply(<<"+ROLE:0", "\r\n", "OK">>)]
           hc06 == [silent EXCEPT !.at = <<Reply(<<>>), Reply(<<"OK">>)>>]
           envs == { [k \in 1..Len(DETECTION_PROFILES) |-> silent],
                     [k \in 1..Len(DETECTION_PROFILES) |-> hc05],
                     [k \in 1..Len(DETECTION_PROFILES) |-> hc06],
                     [k \in 1..Len(DETECTION_PROFILES) |-> IF k = 2 THEN hc06 ELSE silent] }
           slots == {"at1", "at2", "name1", "name2", "pin1", "pin2", "uart", "role", "reset"}
           checks == {"at", "name", "pin"}
           faults == { Reply(<<>>), [kind |-> "wfail", text |-> <<>>],
                       [kind |-> "exc", text |-> <<>>], [kind |-> "cancel", text |-> <<>>] }
       IN \E module \in {"auto", "hc05", "hc06"}, name \in {<<>>, <<"HC-S">>},
             pin \in {<<>>, <<"1", "2", "3", "4">>}, baud \in Bauds, role \in {"slave", "master"},
             env \in envs, closed \in BOOLEAN,
             faulty \in SubsetsUpTo(slots, MaxSetupFaults),
             stops \in SubsetsUpTo(checks, MaxSetupFaults) :
            /\ Cardinality(faulty) + Cardinality(stops) + (IF closed THEN 1 ELSE 0)
                  <= MaxSetupFaults
            /\ \E f \in [faulty -> faults] :
                 fn_in = [called |-> "run_setup", module |-> module, name |-> name,
                          pin |-> pin, baud |-> baud, role |-> role, env |-> env,
                          port |-> [open |-> ~closed, stops |-> stops,
                                    ev |-> [s \in slots |->
                                              IF s \in faulty THEN f[s]
                                              ELSE Reply(<<"OK">>)]]]
    /\ fn_out = NotCalled

\* lines 370-422
CallRunSetup ==
    /\ pc = "fn"
    /\ fn_in.called = "run_setup"
    /\ fn_out.called = "none"
    /\ LET detection == detect_module(fn_in.env)
           module_to_use == IF fn_in.module # "auto" THEN fn_in.module
                            ELSE detection.module
           done == IF module_to_use = "hc05"
                   THEN configure_hc05(fn_in.name, fn_in.pin, fn_in.baud, fn_in.role,
                                       fn_in.port)
                   ELSE configure_hc06(fn_in.name, fn_in.pin, fn_in.baud, fn_in.port)
       IN IF detection = NoDetection
          THEN /\ fn_out' = [called |-> "run_setup", ok |-> FALSE,
                             detection |-> detection, module |-> "none",
                             sent |-> <<>>, rejected |-> FALSE]
               /\ transport' = {"detect"}
          ELSE /\ fn_out' = [called |-> "run_setup", ok |-> done.ok,
                             detection |-> detection, module |-> module_to_use,
                             sent |-> done.sent, rejected |-> done.rejected]
               /\ transport' = {"detect", "setup"}
    /\ UNCHANGED <<args, flags, slave_flags, master_flags, slave_port, master_port,
                   slave_detect, master_detect, slave_plan, master_plan, require_link,
                   context, pc, idx, result, msg, stop, pair_cache, acked, io_fault,
                   unacked, fn_in>>

SpecSetup == InitSetup /\ [][CallRunSetup]_vars

(***************************************************************************)
(* The wait loops, turn by turn: read_response and the collection loop of  *)
(* _inquire_addresses.  Time is counted in ticks; a turn of a loop takes   *)
(* at least one tick and at most TurnTicks (a read that blocks until the   *)
(* port's read timeout, the sleep of the scan loop).                       *)
(* fn_in  = [called, timeout: timeout_s or scan_seconds, quiet_gap]        *)
(* fn_out = [called, at: "loop" or "returned", elapsed: time.time()-start, *)
(*           quiet: time.time() - last_data, chunks: the reads that got    *)
(*           data, late: the turns whose body ran with the stop event set] *)
(***************************************************************************)
MaxTicks == 4
TurnTicks == 2

InitWait ==
    /\ NotRunning
    /\ pc = "fn"
    /\ \E called \in {"read_response", "_inquire_addresses"},
          timeout \in 1..MaxTicks, quiet_gap \in 1..TurnTicks :
         /\ called = "_inquire_addresses" => quiet_gap = 1
         /\ fn_in = [called |-> called, timeout |-> timeout, quiet_gap |-> quiet_gap]
         /\ fn_out = [called |-> called, at |-> "loop", elapsed |-> 0, quiet |-> 0,
                      chunks |-> 0, late |-> 0]

MutReadTurnClockStands ==
    /\ pc = "fn"
    /\ fn_in.called = "read_response"
    /\ fn_out.at = "loop"
    /\ IF fn_out.elapsed >= fn_in.timeout
       THEN fn_out' = [fn_out EXCEPT !.at = "returned"]
       ELSE \E data \in BOOLEAN :
              LET late == fn_out.late + (IF stop THEN 1 ELSE 0) IN
              IF data
              THEN fn_out' = [fn_out EXCEPT !.chunks = IF @ < MaxTicks THEN @ + 1 ELSE @,
                                            !.quiet = 0, !.late = late]
              ELSE fn_out' = [fn_out EXCEPT !.late = late]
    /\ UNCHANGED <<args, flags, slave_flags, master_flags, slave_port, master_port,
                   slave_detect, master_detect, slave_plan, master_plan, require_link,
                   context, pc, idx, result, msg, stop, pair_cache, transport, acked,
                   io_fault, unacked, fn_in>>

\* lines 85-93: one evaluation of the while condition and, when it holds,
\* one turn of the body.  The stop event is not a parameter of
\* read_response and is not read here.
ReadTurn ==
    /\ pc = "fn"
    /\ fn_in.called = "read_response"
    /\ fn_out.at = "loop"
    /\ IF fn_out.elapsed >= fn_in.timeout
       THEN fn_out' = [fn_out EXCEPT !.at = "returned"]
       ELSE \E data \in BOOLEAN, d \in 1..TurnTicks :
              LET late == fn_out.late + (IF stop THEN 1 ELSE 0) IN
              IF data
              THEN fn_out' = [fn_out EXCEPT !.chunks = @ + 1, !.elapsed = @ + d,
                                            !.quiet = 0, !.late = late]
              ELSE IF fn_out.chunks > 0 /\ fn_out.quiet + d >= fn_in.quiet_gap
              THEN fn_out' = [fn_out EXCEPT !.at = "returned", !.elapsed = @ + d,
                                            !.quiet = @ + d, !.late = late]
              ELSE fn_out' = [fn_out EXCEPT !.elapsed = @ + d, !.quiet = @ + d,
                                            !.late = late]
    /\ UNCHANGED <<args, flags, slave_flags, master_flags, slave_port, master_port,
                   slave_detect, master_detect, slave_plan, master_plan, require_link,
                   context, pc, idx, result, msg, stop, pair_cache, transport, acked,
                   io_fault, unacked, fn_in>>

\* lines 730-739: the stop event is read first in every turn
ScanTurn ==
    /\ pc = "fn"
    /\ fn_in.called = "_inquire_addresses"
    /\ fn_out.at = "loop"
    /\ IF fn_out.elapsed >= fn_in.timeout \/ stop
       THEN fn_out' = [fn_out EXCEPT !.at = "returned"]
       ELSE \E data \in BOOLEAN, d \in 1..TurnTicks :
              fn_out' = [fn_out EXCEPT !.chunks = IF data THEN @ + 1 ELSE @,
                                       !.elapsed = @ + d,
                                       !.quiet = IF data THEN 0 ELSE @ + d]
    /\ UNCHANGED <<args, flags, slave_flags, master_flags, slave_port, master_port,
                   slave_detect, master_detect, slave_plan, master_plan, require_link,
                   context, pc, idx, result, msg, stop, pair_cache, transport, acked,
                   io_fault, unacked, fn_in>>

\* another thread sets the stop event while a loop is waiting
CancelDuringWait ==
    /\ pc = "fn"
    /\ fn_in.called \in {"read_response", "_inquire_addresses"}
    /\ fn_out.at = "loop"
    /\ ~stop
    /\ stop' = TRUE
    /\ UNCHANGED <<args, flags, slave_flags, master_flags, slave_port, master_port,
                   slave_detect, master_detect, slave_plan, master_plan, require_link,
                   context, pc, idx, result, msg, pair_cache, transport, acked,
                   io_fault, unacked, fn_in, fn_out>>

SpecWait == InitWait /\ [][ReadTurn \/ ScanTurn \/ CancelDuringWait]_vars

(***************************************************************************)
(* _run_plan_on_port called on its own, on the plans the builders return   *)
(***************************************************************************)
\* the flags of the plans: PairFlags() with at most one toggle flipped, and
\* the same extra commands for both roles
PhaseToggles == {"basic", "no_pair", "no_link", "dry_run"}

PhaseFlags ==
    { FlagsWith(d, e, e) : d \in SubsetsUpTo(PhaseToggles, 1),
                           e \in SeqsUpTo(ExtraCmds, MaxExtra) }

PhaseNames == {<<>>, <<"HC-S">>}
PhasePin == <<"1", "2", "3", "4">>
PhaseBaud == 9600

\* a call: the detected module, the steps, flags.dry_run
PhaseCall(module, steps, f) ==
    [called |-> "_run_plan_on_port", module |-> module, steps |-> steps,
     dry_run |-> f.dry_run]

\* what is known of the call so far: "running", or what it returned, and
\* the record of the last turn of its loop
PhaseState(returned, last) ==
    [called |-> "_run_plan_on_port", returned |-> returned, last |-> last]

NoTurn ==
    [idx |-> 0, step |-> Step("", <<>>, NoOverrides), ok |-> TRUE, acked |-> FALSE,
     writes |-> 0, exc |-> FALSE, cancel |-> FALSE, had_addr |-> FALSE,
     cmd |-> <<>>, forms |-> <<>>, scanned |-> FALSE, scan |-> <<>>,
     selected |-> <<>>]

\* the turn for steps[i] with outcome o, entered with context ctx; forms
\* tells, for each command form written in the step, whether it was
\* acknowledged (in its last attempt)
Turn(i, step, ctx, o) ==
    [idx |-> i, step |-> step, ok |-> o.ok, acked |-> StepAcked(step, o),
     writes |-> o.writes, exc |-> o.exc, cancel |-> o.cancel,
     had_addr |-> ctx.slave_addr # <<>>,
     cmd |-> IF step.kind # "inq" /\ o.writes > 0 THEN WrittenCommand(step, ctx)
             ELSE <<>>,
     forms |-> IF "forms" \in DOMAIN o THEN o.forms
               ELSE IF step.kind # "inq" /\ o.writes > 0 THEN <<StepAcked(step, o)>>
               ELSE <<>>,
     scanned |-> "scan" \in DOMAIN o,
     scan |-> IF "scan" \in DOMAIN o THEN o.scan ELSE <<>>,
     selected |-> IF "scan" \in DOMAIN o THEN o.selected ELSE <<>>]

MutCancelledAfterWrite(ctx) ==
    [ok |-> FALSE, ctx |-> ctx, writes |-> 1, exc |-> FALSE, cancel |-> TRUE,
     acked |-> FALSE]

\* lines 763-765: the stop event is found set before the step
Cancelled(ctx) ==
    [ok |-> FALSE, ctx |-> ctx, writes |-> 0, exc |-> FALSE, cancel |-> TRUE,
     acked |-> FALSE]

PhaseIdle ==
    /\ args = NoArgs
    /\ flags = DefaultFlags /\ slave_flags = DefaultFlags /\ master_flags = DefaultFlags
    /\ slave_port = "" /\ master_port = ""
    /\ slave_detect = NoDetection /\ master_detect = NoDetection
    /\ slave_plan = <<>> /\ master_plan = <<>>
    /\ require_link = FALSE
    /\ idx = 0
    /\ result = "none" /\ msg = ""
    /\ stop = FALSE
    /\ pair_cache = <<>>
    /\ transport = {} /\ acked = {} /\ io_fault = FALSE /\ unacked = FALSE

InitPhase ==
    /\ PhaseIdle
    /\ pc = "fn"
    /\ \E f \in PhaseFlags, name \in PhaseNames :
         \/ \E m \in {"hc05", "hc06"}, ra \in BOOLEAN :
              /\ fn_in = PhaseCall(m, build_slave_plan(Detected(m, 1), name, PhasePin,
                                                       PhaseBaud, f, ra).plan, f)
              /\ context = NewContext
         \/ \E sa \in {<<>>, parse_addr_response(ADDR1)}, ws \in BOOLEAN, rl \in BOOLEAN :
              /\ fn_in = PhaseCall("hc05",
                                   build_master_plan(Detected("hc05", 1), name, PhasePin,
                                                     PhaseBaud, f, sa, ws, rl).plan, f)
              /\ \/ context = [NewContext EXCEPT !.slave_addr = sa]
                 \/ /\ sa = <<>>
                    /\ context = [NewContext EXCEPT
                                     !.slave_addr = parse_addr_response(ADDR2)]
    /\ fn_out = NotCalled

MutRunPlanIgnoresDryRun ==
    /\ pc = "fn"
    /\ fn_in.called = "_run_plan_on_port"
    /\ fn_out.called = "none"
    /\ transport' = transport \cup {"plan"}
    /\ IF fn_in.steps = <<>>
       THEN fn_out' = PhaseState("True", NoTurn) /\ UNCHANGED idx
       ELSE fn_out' = PhaseState("running", NoTurn) /\ idx' = 1
    /\ UNCHANGED <<args, flags, slave_flags, master_flags, slave_port, master_port,
                   slave_detect, master_detect, slave_plan, master_plan, require_link,
                   context, pc, result, msg, stop, pair_cache, acked, unacked, fn_in,
                   io_fault>>

\* lines 928-936: the dry-run exit, opening the port, entering the loop
CallRunPlanOnPort ==
    /\ pc = "fn"
    /\ fn_in.called = "_run_plan_on_port"
    /\ fn_out.called = "none"
    /\ IF fn_in.dry_run
       THEN /\ fn_out' = PhaseState("True", NoTurn)
            /\ UNCHANGED <<idx, transport, io_fault>>
       ELSE /\ transport' = transport \cup {"plan"}
            /\ \E opens \in BOOLEAN :
                 IF ~opens
                 THEN /\ fn_out' = PhaseState("False", NoTurn)
                      /\ io_fault' = TRUE
                      /\ UNCHANGED idx
                 ELSE /\ UNCHANGED io_fault
                      /\ IF fn_in.steps = <<>>
                         THEN fn_out' = PhaseState("True", NoTurn) /\ UNCHANGED idx
                         ELSE fn_out' = PhaseState("running", NoTurn) /\ idx' = 1
    /\ UNCHANGED <<args, flags, slave_flags, master_flags, slave_port, master_port,
                   slave_detect, master_detect, slave_plan, master_plan, require_link,
                   context, pc, result, msg, stop, pair_cache, acked, unacked, fn_in>>

\* lines 937-953 with _execute_step (763-911): one turn of the loop
CallExecuteStep ==
    /\ pc = "fn"
    /\ fn_out.called = "_run_plan_on_port"
    /\ fn_out.returned = "running"
    /\ LET step == fn_in.steps[idx] IN
       \E o \in IF stop THEN {Cancelled(context)}
                ELSE Outcomes(step, fn_in.module, context, PhaseBaud) :
          /\ stop' = (stop \/ o.cancel)
          /\ io_fault' = (io_fault \/ o.exc)
          /\ context' = o.ctx
          /\ IF ~o.ok \/ o.exc
             THEN fn_out' = PhaseState("False", Turn(idx, step, context, o))
                  /\ UNCHANGED idx
             ELSE IF idx = Len(fn_in.steps)
             THEN fn_out' = PhaseState("True", Turn(idx, step, context, o))
                  /\ UNCHANGED idx
             ELSE fn_out' = PhaseState("running", Turn(idx, step, context, o))
                  /\ idx' = idx + 1
    /\ UNCHANGED <<args, flags, slave_flags, master_flags, slave_port, master_port,
                   slave_detect, master_detect, slave_plan, master_plan, require_link,
                   pc, result, msg, pair_cache, transport, acked, unacked, fn_in>>

\* the host sets the stop event while the loop runs
CancelDuringPhase ==
    /\ pc = "fn"
    /\ fn_out.called = "_run_plan_on_port"
    /\ fn_out.returned = "running"
    /\ ~stop
    /\ stop' = TRUE
    /\ UNCHANGED <<args, flags, slave_flags, master_flags, slave_port, master_port,
                   slave_detect, master_detect, slave_plan, master_plan, require_link,
                   context, pc, idx, result, msg, pair_cache, transport, acked,
                   io_fault, unacked, fn_in, fn_out>>

NextPhase ==
    \/ CallRunPlanOnPort
    \/ CallExecuteStep
    \/ CancelDuringPhase

SpecPhase == InitPhase /\ [][NextPhase]_vars

(***************************************************************************)
(* The functions that read the stop event, each called on its own          *)
(***************************************************************************)
SpecStop ==
    /\ (InitSend \/ InitPhase \/ InitDetect)
    /\ [][NextSend \/ NextPhase \/ CallDetectModule]_vars

(***************************************************************************)
(* run_pair and the wait loops under fair scheduling: the thread that runs *)
(* run_pair or a loop keeps running, and the operator answers the prompts  *)
(* (the swap prompt and the tuning session are steps of Next).  Nobody is  *)
(* obliged to set the stop event.                                          *)
(***************************************************************************)
MaxLiveDeviations == 0

\* the calls of Init that differ from a nominal call in at most
\* MaxLiveDeviations places, and the nominal calls with interactive tuning
InitLive ==
    /\ \E c \in Calls :
         /\ \/ CallDeviations(c) <= MaxLiveDeviations
            \/ CallDeviations([c EXCEPT !.flags.interactive = FALSE]) = 0
         /\ args = [mode |-> c.shape.mode, port |-> c.shape.port,
                    slave_port |-> c.shape.slave_port,
                    master_port |-> c.shape.master_port,
                    name_slave |-> c.names[1], name_master |-> c.names[2],
                    pin |-> c.pin, baud |-> c.baud]
         /\ flags = c.flags
    /\ slave_flags = flags /\ master_flags = flags
    /\ Idle
    /\ pc = "validate"
    /\ fn_in = NotCalled /\ fn_out = NotCalled

SpecLive ==
    /\ (InitLive \/ InitWait)
    /\ [][Next \/ ReadTurn \/ ScanTurn \/ CancelDuringWait]_vars
    /\ WF_vars(Next)
    /\ WF_vars(ReadTurn \/ ScanTurn)

(***************************************************************************)
(* Properties of run_pair                                                  *)
(***************************************************************************)
MSG_DETECT_MASTER == "!! Detect failed on MASTER."
MSG_MASTER_FAMILY == "!! MASTER must be HC-05 (ROLE/PAIR/BIND/LINK)."
MSG_NEEDS_ADDR == "!! Mode one needs the SLAVE address (recommend SLAVE as HC-05)."

PlanHasScan(plan) == \E i \in 1..Len(plan) : plan[i].kind = "inq"

\* two-port mode with the link step not disabled
C1_LinkRequired == actual_mode = "two" /\ ~flags.no_link

\* scenario 1: two-port mode, distinct ports, a valid pin and rate, the
\* peripheral family A, the controller not found absent or of another family,
\* the default plan, and every step acknowledged
C1_Scenario1 ==
    /\ actual_mode = "two"
    /\ args.slave_port # "" /\ args.master_port # ""
    /\ args.slave_port # args.master_port
    /\ IsFourDecimalDigits(args.pin)
    /\ args.baud > 0
    /\ slave_detect.module = "hc05"
    /\ msg \notin {MSG_DETECT_MASTER, MSG_MASTER_FAMILY}
    /\ slave_flags.basic /\ master_flags.basic
    /\ slave_flags.skip_steps = {} /\ master_flags.skip_steps = {}
    /\ ~flags.dry_run /\ ~flags.no_link
    /\ ~unacked /\ ~stop /\ ~io_fault

\* C1: when the link is required (two-port mode, link step not disabled) a
\* finished attempt is a PASS only if the link command was acknowledged in
\* this attempt, and is a FAIL whenever it was not; and scenario 1 (two
\* distinct ports, family A modules, valid pin and rate, every step
\* acknowledged) ends in PASS with the 'paired (LINK OK)' message.
C1_LinkRequiredVerdict ==
    pc = "done" =>
        /\ (C1_LinkRequired /\ result = "PASS") => "link" \in acked
        /\ (C1_LinkRequired /\ "link" \notin acked) => result = "FAIL"
        /\ C1_Scenario1 => (result = "PASS" /\ msg = MSG_PAIRED)

C1_Witness ==
    /\ pc = "done"
    /\ C1_LinkRequired /\ C1_Scenario1
    /\ "link" \in acked
    /\ result = "PASS" /\ msg = MSG_PAIRED

\* swap mode, the peripheral address captured, and the bind command (hence
\* every critical controller step before it) acknowledged
C2_BindAcked ==
    actual_mode = "one" /\ context.slave_addr # <<>> /\ "bind" \in acked

C2_Expected ==
    /\ result = "PASS"
    /\ msg = IF "link" \in acked THEN MSG_PAIRED ELSE MSG_DEFERRED

C3_Table(mode, required, achieved) ==
    IF achieved THEN <<"PASS", MSG_PAIRED>>
    ELSE IF required THEN <<"FAIL", MSG_LINK_REQUIRED>>
    ELSE <<"PASS", MSG_DEFERRED>>

\* C3: whenever the controller phase has finished, the result and the final
\* message the attempt returns are those one fixed table gives for (mode,
\* link required, link achieved), whatever the rest of the state is.
C3_VerdictIsFunction ==
    [][pc = "after_master" =>
          <<result', msg'>> = C3_Table(actual_mode, require_link,
                                       context.master_link_ok)]_vars

\* a PASS with no bind acknowledged, no address discovered and nothing sent
C3_Witness ==
    /\ pc = "done" /\ result = "PASS" /\ msg = MSG_DEFERRED
    /\ ~context.master_bind_ok /\ context.slave_addr = <<>>
    /\ flags.dry_run

\* the inputs the claim calls invalid
C4_Invalid ==
    \/ (args.pin # <<>> /\ ~IsFourDecimalDigits(args.pin))
    \/ args.baud <= 0
    \/ actual_mode \notin {"one", "two"}
    \/ (actual_mode = "two" /\ (args.slave_port = "" \/ args.master_port = ""
                                 \/ args.slave_port = args.master_port))
    \/ (actual_mode = "one" /\ args.port = "" /\ args.slave_port = ""
                             /\ args.master_port = "")

\* C4 as stated: with an invalid input (a pin that is not exactly 4 decimal
\* digits, a baud that is not positive, a mode that is neither one nor two,
\* two-port mode without two distinct ports, swap mode without a port) the
\* attempt fails and no port is opened, no detection runs and no command is
\* written.
C4_InvalidInputRejected ==
    (args.mode # "none" /\ C4_Invalid) =>
        /\ transport = {}
        /\ pc \in {"validate", "done"}
        /\ pc = "done" => result = "FAIL"

\* C5: when the controller module is family B, build_master_plan raises the
\* configuration fault for the attempt's flags with basic and dry-run set
\* either way, the attempt has returned failure, and no port was opened to
\* run a controller plan.
C5_ControllerFamilyB ==
    master_detect.module = "hc06" =>
        /\ \A basic \in BOOLEAN, dry_run \in BOOLEAN :
             LET f == [master_flags EXCEPT !.basic = basic, !.dry_run = dry_run]
                 r == build_master_plan(master_detect, args.name_master, args.pin,
                                        args.baud, f, context.slave_addr,
                                        WantScan(context),
                                        RequireLink(actual_mode, f))
             IN ~r.ok /\ r.err = "master_not_hc05" /\ r.plan = <<>>
        /\ pc = "done" /\ result = "FAIL"
        /\ "master_plan" \notin transport
        /\ master_plan = <<>>

C5_Witness ==
    /\ master_detect.module = "hc06"
    /\ ~master_flags.basic
    /\ "slave_plan" \in transport
    /\ pc = "done" /\ result = "FAIL"

(***************************************************************************)
(* Properties of the plan builders                                         *)
(***************************************************************************)
\* the faults a builder raises (PairPlanError)
ConfigFaults == {"baud", "skip_critical", "master_not_hc05"}

BitRateSteps(plan) == { i \in 1..Len(plan) : plan[i].id = "uart" }

\* a peripheral plan was asked for a family B module
C6_FamilyBCall ==
    fn_out.called = "build_slave_plan" /\ fn_in.detection.module = "hc06"

C6_RateStep ==
    /\ Cardinality(BitRateSteps(fn_out.plan)) = 1
    /\ \A i \in BitRateSteps(fn_out.plan) :
         fn_out.plan[i].command = <<"AT+BAUD", HC06_BAUD_MAP[fn_in.baud]>>

C6_Rejected ==
    ~fn_out.ok /\ fn_out.err \in ConfigFaults /\ fn_out.plan = <<>> /\ transport = {}

\* C6 as stated: for a family B module, a plan built for a rate of
\* HC06_BAUD_MAP has exactly one bit-rate step, whose command is AT+BAUD
\* followed by the mapped code, and for a rate outside the map the build
\* fails with a configuration fault and nothing is sent.
C6_FamilyBRate ==
    C6_FamilyBCall =>
        /\ (fn_in.baud \in DOMAIN HC06_BAUD_MAP /\ fn_out.ok) => C6_RateStep
        /\ fn_in.baud \notin DOMAIN HC06_BAUD_MAP => C6_Rejected

\* C6, amended: the same, for flags with the basic sequence enabled.
C6_FamilyBRateBasic ==
    (C6_FamilyBCall /\ fn_in.flags.basic) =>
        /\ (fn_in.baud \in DOMAIN HC06_BAUD_MAP /\ fn_out.ok) => C6_RateStep
        /\ fn_in.baud \notin DOMAIN HC06_BAUD_MAP => C6_Rejected

C6_Witness ==
    /\ C6_FamilyBCall /\ fn_in.flags.basic
    /\ fn_in.baud = 115200
    /\ fn_out.ok /\ C6_RateStep

\* the ids of the critical steps: those of the steps flagged critical in the
\* plan the same builder returns for the same arguments with the basic
\* sequence enabled and nothing skipped
C7_CriticalIds ==
    LET f == [fn_in.flags EXCEPT !.basic = TRUE, !.skip_steps = {}]
        full == IF fn_in.called = "build_slave_plan"
                THEN build_slave_plan(fn_in.detection, fn_in.name, fn_in.pin,
                                      fn_in.baud, f, fn_in.require_addr)
                ELSE build_master_plan(fn_in.detection, fn_in.name, fn_in.pin,
                                       fn_in.baud, f, fn_in.slave_addr,
                                       fn_in.want_scan, fn_in.require_link)
    IN { full.plan[i].id : i \in { k \in 1..Len(full.plan) : full.plan[k].critical } }

C7_SkipsCritical == fn_in.flags.skip_steps \cap C7_CriticalIds # {}

\* C7 as stated: for both builders and every flag combination, a plan is
\* returned only if the skip set names no critical step, and a skip set that
\* names one makes the build raise a configuration fault.
C7_NoCriticalSkipped ==
    fn_out.called # "none" =>
        /\ fn_out.ok => ~C7_SkipsCritical
        /\ C7_SkipsCritical => (~fn_out.ok /\ fn_out.err \in ConfigFaults)

\* C7, amended: the same, for flags with the basic sequence enabled.
C7_NoCriticalSkippedBasic ==
    (fn_out.called # "none" /\ fn_in.flags.basic) =>
        /\ fn_out.ok => ~C7_SkipsCritical
        /\ C7_SkipsCritical => (~fn_out.ok /\ fn_out.err \in ConfigFaults)

C7_Witness ==
    /\ fn_out.called = "build_master_plan"
    /\ fn_in.detection.module = "hc05"
    /\ fn_in.flags.basic
    /\ fn_in.flags.skip_steps = {"bind"}
    /\ ~fn_out.ok /\ fn_out.err = "skip_critical"

(***************************************************************************)
(* Properties of parse_addr_response                                       *)
(***************************************************************************)
C8_HexDigit(c) ==
    c \in {"0", "1", "2", "3", "4", "5", "6", "7", "8", "9",
           "a", "b", "c", "d", "e", "f", "A", "B", "C", "D", "E", "F"}

C8_HexGroup(text, from, n) ==
    from + n - 1 <= Len(text) /\ \A k \in from..(from + n - 1) : C8_HexDigit(text[k])

\* a triple X:Y:Z of 4, 2 and 6 hex digits starts at position i of the text
C8_TripleAt(text, i) ==
    /\ C8_HexGroup(text, i, 4)
    /\ i + 13 <= Len(text)
    /\ text[i + 4] = ":"
    /\ C8_HexGroup(text, i + 5, 2)
    /\ text[i + 7] = ":"
    /\ C8_HexGroup(text, i + 8, 6)

C8_HasTriple(text) == \E i \in 1..Len(text) : C8_TripleAt(text, i)

\* the same groups with ',' for ':'
C8_ArgumentForm(display) ==
    [k \in 1..Len(display) |-> IF display[k] = ":" THEN "," ELSE display[k]]

C8_Returned ==
    LET text == fn_in.text
        value == fn_out.value
    IN IF C8_HasTriple(text)
       THEN /\ value # <<>>
            /\ \E i \in 1..Len(text) :
                 /\ C8_TripleAt(text, i)
                 /\ \A j \in 1..(i - 1) : ~C8_TripleAt(text, j)
                 /\ value[1] = SubSeq(text, i, i + 13)
            /\ value[2] = C8_ArgumentForm(value[1])
       ELSE value = <<>>

\* C8: for a text that contains a triple X:Y:Z of 4, 2 and 6 hex digits (any
\* letter case, any surrounding text, several lines) parse_addr_response
\* returns the display form X:Y:Z of the first such triple, as written, and
\* the argument form X,Y,Z of the same groups; parsing the returned display
\* form again returns the same pair; a text with no such triple gives none.
C8_ParseSymmetricIdempotent ==
    /\ [](fn_out.called = "parse_addr_response" => C8_Returned)
    /\ [][(fn_out.called = "parse_addr_response" /\ fn_in'.again)
            => (fn_in'.text = fn_out.value[1] /\ fn_out' = fn_out)]_vars

C8_Witness ==
    /\ fn_out.called = "parse_addr_response"
    /\ fn_in.again
    /\ fn_out.value # <<>>
    /\ fn_out.value[1][1] = "a"
    /\ fn_out.value[2] = C8_ArgumentForm(fn_in.text)

(***************************************************************************)
(* Properties of run_pair: the address and the controller phase            *)
(***************************************************************************)
\* controller detection or a controller plan has used a port
C9_ControllerStarted == "master_detect" \in transport \/ "master_plan" \in transport

C9_AddressOrScan == context.slave_addr # <<>> \/ PlanHasScan(master_plan)

C9_Body ==
    /\ C9_ControllerStarted => C9_AddressOrScan
    /\ (pc = "done" /\ ~C9_AddressOrScan) => (result = "FAIL" /\ ~C9_ControllerStarted)

\* C9 as stated, read in the weakest way (the test is made only once the
\* controller plan is built): in swap mode the controller plan is run only if
\* the context holds the peripheral address or the plan has a scan step.
C9_SwapNeedsAddress ==
    (actual_mode = "one" /\ pc \in {"run_master", "exec_master", "after_master"})
        => C9_AddressOrScan

\* C9, amended: in swap mode with dry-run off, the controller phase
\* (detection, then every command) starts only once the context holds the
\* peripheral address or the controller plan has a scan step; when neither
\* holds the attempt returns failure without having started the controller
\* phase.
C9_SwapNeedsAddressLive == (actual_mode = "one" /\ ~flags.dry_run) => C9_Body

\* the peripheral plan ran without capturing an address, and the attempt
\* stopped there
C9_Witness ==
    /\ actual_mode = "one" /\ ~flags.dry_run
    /\ "slave_plan" \in transport
    /\ pc = "done" /\ result = "FAIL" /\ msg = MSG_NEEDS_ADDR
    /\ context.slave_addr = <<>>
    /\ ~C9_ControllerStarted

\* the controller's port is open and the executor is at a step of the plan
C10_Executed == "master_plan" \in transport /\ pc = "exec_master"

\* C10 as stated: in every mode and for every flags, the controller plan is
\* executed only if the context holds a peripheral address or the plan has
\* the scan step.
C10_ExecutedWithAddressOrScan ==
    C10_Executed => (context.slave_addr # <<>> \/ PlanHasScan(master_plan))

\* C10, amended: the same, when the controller's flag copy has the basic
\* sequence enabled.
C10_ExecutedWithAddressOrScanBasic ==
    (C10_Executed /\ master_flags.basic) =>
        (context.slave_addr # <<>> \/ PlanHasScan(master_plan))

\* a tuned controller plan starts with no address and a scan step
C10_Witness ==
    /\ C10_Executed
    /\ master_flags.basic /\ master_flags # flags
    /\ context.slave_addr = <<>>
    /\ PlanHasScan(master_plan)

(***************************************************************************)
(* Properties of run_pair: the order of the stages                         *)
(***************************************************************************)
\* the stages that may directly follow a stage
C11_Successors(stage) ==
    CASE stage = "validate" -> {"detect_slave", "done"}
      [] stage = "detect_slave" -> {"build_slave", "done"}
      [] stage = "build_slave" -> {"tune_slave", "run_slave", "done"}
      [] stage = "tune_slave" -> {"run_slave", "done"}
      [] stage = "run_slave" -> {"exec_slave", "after_slave", "done"}
      [] stage = "exec_slave" -> {"after_slave", "done"}
      [] stage = "after_slave" -> {"swap", "detect_master", "done"}
      [] stage = "swap" -> {"detect_master"}
      [] stage = "detect_master" -> {"build_master", "done"}
      [] stage = "build_master" -> {"tune_master", "run_master", "done"}
      [] stage = "tune_master" -> {"run_master", "done"}
      [] stage = "run_master" -> {"exec_master", "after_master", "done"}
      [] stage = "exec_master" -> {"after_master", "done"}
      [] stage = "after_master" -> {"done"}
      [] OTHER -> {}

C11_ControllerUses == {"master_detect", "master_plan"}

C11_PeripheralUses == {"slave_detect", "slave_plan"}

\* one step of the attempt respects the order
C11_Step ==
    /\ pc' # pc => pc' \in C11_Successors(pc)
    /\ pc' = "swap" => actual_mode = "one"
    /\ pc = "done" => UNCHANGED vars
    /\ (pc' = "done" /\ pc \notin {"after_master", "done"}) => result' = "FAIL"
    /\ pc' # "done" => result' = "none"
    /\ (transport' \ transport) \cap C11_PeripheralUses # {}
         => pc \in {"detect_slave", "run_slave"}
    /\ (transport' \ transport) \cap C11_ControllerUses # {}
         => pc \in {"detect_master", "run_master"}

\* the peripheral was detected and its plan run (or previewed) with success
C11_PeripheralDone ==
    /\ slave_detect # NoDetection
    /\ slave_flags.dry_run \/ "slave_plan" \in transport
    /\ pc \notin {"validate", "detect_slave", "build_slave", "tune_slave",
                  "run_slave", "exec_slave", "after_slave"}

\* C11: run_pair goes through its stages in the fixed order validate,
\* detect peripheral, build (tune) and run the peripheral plan, cache the
\* address, await the swap (swap mode only), detect controller, build (tune)
\* and run the controller plan, verdict; the controller uses a port only once
\* the peripheral phase has returned success; a failing stage makes the
\* attempt return FAIL, after which nothing more happens.
C11_StageOrder ==
    /\ [][C11_Step]_vars
    /\ [](transport \cap C11_ControllerUses # {} => C11_PeripheralDone)

\* an attempt that failed in the controller phase after a peripheral phase
\* that sent commands
C11_Witness ==
    /\ pc = "done" /\ result = "FAIL" /\ msg = "[FAIL] MASTER phase failed."
    /\ actual_mode = "one"
    /\ C11_PeripheralUses \cup C11_ControllerUses \subseteq transport
    /\ context.slave_addr # <<>>

\* the peripheral is family A and the peripheral phase captured its address
C12_Captured == slave_detect.module = "hc05" /\ context.slave_addr # <<>>

\* the swap prompt is being issued, or a port was used for the controller
C12_SwapOrController == pc = "swap" \/ transport \cap C11_ControllerUses # {}

\* a family B peripheral: the attempt failed and no peripheral plan was run
C12_FamilyBFailsEarly ==
    slave_detect.module = "hc06" =>
        /\ pc = "done" /\ result = "FAIL"
        /\ "slave_plan" \notin transport
        /\ slave_plan = <<>>

C12_Body ==
    /\ C12_SwapOrController => C12_Captured
    /\ (pc = "done" /\ ~C12_Captured) => result = "FAIL"

\* C12 as stated: in swap mode, a family B peripheral makes the attempt fail
\* before any peripheral configuration command is sent, and in every case
\* the swap prompt is not issued and the controller uses no port unless the
\* peripheral is family A and its address was captured; without that the
\* attempt fails.
C12_SwapFailsEarly ==
    actual_mode = "one" => (C12_FamilyBFailsEarly /\ C12_Body)

\* C12, amended: the same, the part about the captured address for attempts
\* with dry-run off.
C12_SwapFailsEarlyLive ==
    actual_mode = "one" => (C12_FamilyBFailsEarly /\ (~flags.dry_run => C12_Body))

\* a family B peripheral in swap mode: detected, then failure
C12_Witness ==
    /\ actual_mode = "one" /\ ~flags.dry_run
    /\ slave_detect.module = "hc06"
    /\ transport = {"slave_detect"}
    /\ pc = "done" /\ result = "FAIL" /\ msg = MSG_NEEDS_ADDR

(***************************************************************************)
(* Properties of the plan executor                                         *)
(***************************************************************************)
\* the last turn of the loop, once there is one
LastTurn == fn_out.last

TurnTaken == fn_out.called = "_run_plan_on_port" /\ fn_out.last.idx > 0

\* the step's command text names the address placeholder
C13_NamesAddress(step) ==
    step.kind # "inq" /\ \E i \in 1..Len(step.command) : step.command[i] = "{addr}"

\* the step was executed while the context held no address
C13_AddressMissing ==
    TurnTaken /\ C13_NamesAddress(LastTurn.step) /\ ~LastTurn.had_addr

\* C13: a step whose command contains the address placeholder, executed
\* while the context holds no address, fails, the phase returns failure at
\* that step, and nothing is written for the step, whether the step is
\* flagged critical or optional.
C13_PlaceholderWithoutAddressFails ==
    C13_AddressMissing =>
        /\ ~LastTurn.ok
        /\ LastTurn.writes = 0
        /\ fn_out.returned = "False"
        /\ idx = LastTurn.idx
        /\ context.slave_addr = <<>>

\* an optional extra command with the placeholder, not cancelled
C13_Witness ==
    /\ C13_AddressMissing
    /\ LastTurn.step.optional /\ ~LastTurn.step.critical
    /\ LastTurn.step.category = "extra"
    /\ ~stop
    /\ fn_out.returned = "False"

\* the call has returned
PhaseReturned ==
    fn_out.called = "_run_plan_on_port" /\ fn_out.returned \in {"True", "False"}

PhaseRunning == fn_out.called = "_run_plan_on_port" /\ fn_out.returned = "running"

\* a turn of the loop executes the step the position names and moves the
\* position one step on, or returns
C14_InOrder ==
    (PhaseRunning /\ fn_out' # fn_out) =>
        /\ fn_out'.last.idx = idx
        /\ fn_out'.last.step = fn_in.steps[idx]
        /\ fn_out'.returned = "running" => (idx' = idx + 1 /\ idx' <= Len(fn_in.steps))
        /\ fn_out'.returned # "running" => idx' = idx
        /\ fn_out'.returned = "True" => idx = Len(fn_in.steps)

\* a critical step was not acknowledged
C14_CriticalFailed == TurnTaken /\ LastTurn.step.critical /\ ~LastTurn.acked

\* C14: the steps of a plan are executed in plan order, each at most once;
\* when a critical step is not acknowledged within its own retries the phase
\* returns failure at that step, no later step is executed and nothing is
\* executed again.
C14_OrderAndCriticalAbort ==
    /\ [][C14_InOrder]_vars
    /\ [][PhaseReturned => UNCHANGED vars]_vars
    /\ [](C14_CriticalFailed =>
            (~LastTurn.ok /\ fn_out.returned = "False" /\ idx = LastTurn.idx))

\* the liveness command written twice (its retries) without acknowledgement,
\* in a plan with later steps
C14_Witness ==
    /\ C14_CriticalFailed
    /\ LastTurn.step.id = "at" /\ LastTurn.writes = 2
    /\ ~LastTurn.exc /\ ~LastTurn.cancel
    /\ fn_out.returned = "False"
    /\ idx < Len(fn_in.steps)

\* the command of the step was written and not acknowledged: an error reply,
\* no reply, or a failed write
C15_Unacked ==
    /\ TurnTaken
    /\ LastTurn.writes > 0 /\ ~LastTurn.acked
    /\ ~LastTurn.exc /\ ~LastTurn.cancel

\* C15: when the command of a step flagged optional is not acknowledged
\* (error reply, no reply, failed write), _execute_step returns True and the
\* loop goes on to the next step, or returns True after the last one.
C15_OptionalTolerated ==
    (C15_Unacked /\ LastTurn.step.optional) =>
        /\ LastTurn.ok
        /\ fn_out.returned # "False"
        /\ fn_out.returned = "running" => idx = LastTurn.idx + 1
        /\ fn_out.returned = "True" => LastTurn.idx = Len(fn_in.steps)

\* the optional link step of a controller plan not acknowledged, the loop at
\* the step after it
C15_Witness ==
    /\ C15_Unacked
    /\ LastTurn.step.id = "link" /\ LastTurn.step.optional
    /\ fn_out.returned = "running"
    /\ fn_in.steps[idx].id = "reset"

\* C16 as stated: a command not acknowledged ends the phase only if its
\* step is flagged critical; a step not flagged critical (set-name, set-pin)
\* that is not acknowledged does not end the phase.
C16_FatalOnlyIfCritical ==
    (C15_Unacked /\ ~LastTurn.step.critical) => fn_out.returned # "False"

\* C16, amended: a command not acknowledged ends the phase unless its step
\* is flagged optional; a step flagged neither critical nor optional
\* (set-name, set-pin) that is not acknowledged ends the phase as a critical
\* one does.
C16_FatalUnlessOptional ==
    C15_Unacked => (fn_out.returned = "False" <=> ~LastTurn.step.optional)

\* the set-pin step, flagged neither way, not acknowledged in either form
C16_Witness ==
    /\ C15_Unacked
    /\ LastTurn.step.id = "pin"
    /\ ~LastTurn.step.critical /\ ~LastTurn.step.optional
    /\ LastTurn.writes = 2
    /\ fn_out.returned = "False"
    /\ idx < Len(fn_in.steps)

(***************************************************************************)
(* Properties of run_pair: the controller plan, the verdict, the flags     *)
(***************************************************************************)
C17_Has(plan, id) == \E i \in 1..Len(plan) : plan[i].id = id

\* C17: in every controller plan run_pair builds, the link step, when
\* present, is flagged critical exactly in two-port mode and optional exactly
\* in swap mode, the negotiate (AT+PAIR) step is optional and the bind step
\* is critical.
C17_LinkCriticalInTwoPortOnly ==
    \A i \in 1..Len(master_plan) :
        LET step == master_plan[i] IN
        /\ step.id = "link" =>
             /\ step.critical <=> actual_mode = "two"
             /\ step.optional <=> actual_mode = "one"
        /\ step.id = "pair" => (step.optional /\ ~step.critical)
        /\ step.id = "bind" => (step.critical /\ ~step.optional)

\* a controller plan of swap mode, rebuilt after tuning, with the three steps
C17_Witness ==
    /\ actual_mode = "one"
    /\ pc = "run_master"
    /\ master_flags # flags
    /\ C17_Has(master_plan, "pair") /\ C17_Has(master_plan, "bind")
    /\ \E i \in 1..Len(master_plan) :
         master_plan[i].id = "link" /\ master_plan[i].optional

\* C18 as stated: in either mode and for any flags, an attempt returns PASS
\* only if the bind command was acknowledged during the attempt (the
\* context's bind-succeeded flag is true).
C18_PassImpliesBind ==
    (pc = "done" /\ result = "PASS") =>
        (context.master_bind_ok /\ "bind" \in acked)

\* the stages before the operator has tuned the peripheral, and before the
\* operator has tuned the controller
C19_BeforeSlaveTuning == {"detect_slave", "build_slave", "tune_slave"}

C19_BeforeMasterTuning ==
    C19_BeforeSlaveTuning
    \cup {"run_slave", "exec_slave", "after_slave", "swap", "detect_master",
          "build_master", "tune_master"}

\* tuning a role leaves the caller's flags and the other role's copy and
\* plan as they are
C19_TuningIsLocal ==
    /\ pc = "tune_slave" =>
         (flags' = flags /\ master_flags' = master_flags /\ master_plan' = master_plan)
    /\ pc = "tune_master" =>
         (flags' = flags /\ slave_flags' = slave_flags /\ slave_plan' = slave_plan)

\* each plan is the one its builder returns for the role's own copy
C19_PlansFromOwnCopy ==
    /\ slave_plan # <<>> =>
         slave_plan = build_slave_plan(slave_detect, args.name_slave, args.pin,
                                       args.baud, slave_flags,
                                       actual_mode = "one").plan
    /\ (master_plan # <<>> /\ pc \in {"tune_master", "run_master"}) =>
         master_plan = build_master_plan(master_detect, args.name_master, args.pin,
                                         args.baud, master_flags, context.slave_addr,
                                         context.slave_addr = <<>>,
                                         actual_mode = "two" /\ ~master_flags.no_link).plan

\* C19: each role has its own copy of the flags: what the operator changes
\* while tuning the peripheral (skip set, extra commands, basic) leaves the
\* controller's copy unchanged, and the other way round; the controller's
\* copy is the caller's flags until the controller is tuned; each plan is
\* built from its role's copy alone.
C19_IndependentCopies ==
    /\ [][C19_TuningIsLocal]_vars
    /\ [](pc \in C19_BeforeSlaveTuning => slave_flags = flags)
    /\ [](pc \in C19_BeforeMasterTuning => master_flags = flags)
    /\ []C19_PlansFromOwnCopy

\* the basic sequence was switched off while tuning the peripheral, the
\* controller's copy was left as the caller gave it, and the controller plan
\* has its basic steps
C19_Witness ==
    /\ pc = "run_master"
    /\ ~slave_flags.basic /\ flags.basic
    /\ master_flags = flags
    /\ slave_plan = <<>>
    /\ C17_Has(master_plan, "at") /\ C17_Has(master_plan, "bind")

(***************************************************************************)
(* Properties of send_command                                              *)
(***************************************************************************)
\* the reply of the attempt contains the marker OK, in any letter case
C20_Acks(ev) ==
    ev.kind = "reply" /\ \E i \in 1..Len(ev.text) : ev.text[i] \in {"OK", "Ok", "oK", "ok"}

\* the attempt completed its read with a reply that is a success
C20_Success(ev) == ev.kind = "reply" /\ (fn_in.expect_ok => C20_Acks(ev))

\* the attempts begun: every earlier one completed its read without success
C20_Begun ==
    { k \in 1..fn_in.retries :
        \A j \in 1..(k - 1) :
            fn_in.events[j].kind = "reply" /\ ~C20_Success(fn_in.events[j]) }

\* the attempts in which the command was written
C20_Written == { k \in C20_Begun : fn_in.events[k].kind # "cancel" }

C20_Successes == { k \in C20_Begun : C20_Success(fn_in.events[k]) }

C20_AllReplies == \A k \in 1..fn_in.retries : fn_in.events[k].kind = "reply"

\* C20: send_command writes the command at most `retries` times; with the
\* acknowledgement required it returns success exactly when the reply of one
\* of its attempts contains OK in any letter case, at the first such attempt,
\* and an attempt whose reply lacks it is followed by the next until the
\* budget is used; with the acknowledgement not required it returns success
\* after the first attempt that completed its read, whatever the reply.
C20_SendCommandContract ==
    (fn_out.called = "send_command" /\ ~fn_out.exc) =>
        /\ fn_out.writes = Cardinality(C20_Written)
        /\ fn_out.writes <= fn_in.retries
        /\ fn_out.ok <=> C20_Successes # {}
        /\ \A k \in C20_Successes :
             /\ fn_out.writes = k
             /\ fn_out.resp = fn_in.events[k].text
             /\ \A j \in 1..(k - 1) : ~C20_Acks(fn_in.events[j])
        /\ (fn_in.expect_ok /\ C20_AllReplies /\ ~fn_out.ok) =>
             fn_out.writes = fn_in.retries
        /\ (~fn_in.expect_ok /\ fn_in.retries >= 1 /\ fn_in.events[1].kind = "reply") =>
             (fn_out.ok /\ fn_out.writes = 1 /\ fn_out.resp = fn_in.events[1].text)

\* acknowledged in lower case at the second attempt, after an error reply
C20_Witness ==
    /\ fn_out.called = "send_command"
    /\ fn_in.expect_ok /\ fn_in.retries = 2
    /\ fn_in.events[1] = Reply(<<"ERROR:(16)">>)
    /\ fn_in.events[2] = Reply(<<"ok">>)
    /\ fn_out.ok /\ fn_out.writes = 2 /\ fn_out.resp = <<"ok">>

(***************************************************************************)
(* Properties of the plan executor: the dry run                             *)
(***************************************************************************)
\* the call is a dry run
C24_DryRunCall == fn_in.called = "_run_plan_on_port" /\ fn_in.dry_run

\* C24: with dry-run set, _run_plan_on_port opens no port and writes no
\* command (no turn of the loop is taken), leaves the pairing context as it
\* was, and returns True, whatever the plan and the context are.
C24_DryRunTouchesNothing ==
    /\ [][(C24_DryRunCall /\ fn_out.called = "none") =>
            /\ fn_out'.returned = "True" /\ fn_out'.last = NoTurn
            /\ context' = context /\ transport' = transport
            /\ idx' = idx /\ io_fault' = io_fault]_vars
    /\ [](C24_DryRunCall =>
            (transport = {} /\ ~TurnTaken /\ idx = 0 /\ ~io_fault
             /\ ~context.master_bind_ok /\ ~context.master_link_ok))

\* the dry run of a controller plan with its basic steps and a known address
C24_Witness ==
    /\ C24_DryRunCall
    /\ fn_out.called = "_run_plan_on_port" /\ fn_out.returned = "True"
    /\ C17_Has(fn_in.steps, "bind")
    /\ context.slave_addr # <<>>
    /\ transport = {}

(***************************************************************************)
(* Properties of the plan builders: the order of the steps                 *)
(***************************************************************************)
\* the ids of the steps of a plan, in plan order
C27_Ids(plan) == [i \in 1..Len(plan) |-> plan[i].id]

\* the steps of a plan that are not extra commands
C27_BasicPart(plan) == LET basic(s) == s.category # "extra" IN SelectSeq(plan, basic)

\* the controller steps in the order of the claim
C27_Order ==
    <<"at", "role1", "cmode", "name", "pin", "uart", "rmaad", "init", "inq", "pair",
      "bind", "link", "reset">>

\* whether the call asks for the step: the condition the claim gives for it,
\* and the step not being skipped
C27_Asked(id) ==
    /\ id \notin fn_in.flags.skip_steps
    /\ CASE id = "name" -> fn_in.name # <<>>
         [] id = "pin" -> fn_in.pin # <<>>
         [] id = "rmaad" -> ~fn_in.flags.no_rmaad
         [] id = "inq" -> fn_in.slave_addr = <<>> /\ fn_in.want_scan
         [] id = "pair" -> ~fn_in.flags.no_pair
         [] id = "link" -> ~fn_in.flags.no_link
         [] OTHER -> TRUE

C27_Critical == {"at", "role1", "cmode", "uart", "inq", "bind"}

C27_Optional == {"rmaad", "init", "pair", "reset"}

\* a plan was returned for a call with the basic sequence enabled
C27_MasterBuilt ==
    fn_out.called = "build_master_plan" /\ fn_out.ok /\ fn_in.flags.basic

\* C27: with basic enabled, the plan build_master_plan returns has the
\* controller steps in the order liveness, force-controller-role,
\* connect-mode, set-name, set-pin, set-bit-rate, clear-bonded-list,
\* initialize-radio, scan, negotiate, bind, link, reset, each present exactly
\* when its condition holds and it is not skipped, with the flags the claim
\* gives, followed by the extra commands; so a scan step precedes negotiate,
\* bind and link, bind precedes link, and skipping never reorders.
C27_MasterPlanOrder ==
    C27_MasterBuilt =>
        LET plan == fn_out.plan
            basic == C27_BasicPart(plan)
        IN /\ C27_Ids(basic) = SelectSeq(C27_Order, C27_Asked)
           /\ plan = basic \o SubSeq(plan, Len(basic) + 1, Len(plan))
           /\ Len(plan) = Len(basic) + Len(fn_in.flags.extra_master_cmds)
           /\ \A i \in 1..Len(basic) :
                /\ basic[i].id \in C27_Critical => (basic[i].critical /\ ~basic[i].optional)
                /\ basic[i].id \in C27_Optional => (basic[i].optional /\ ~basic[i].critical)
                /\ basic[i].id = "reset" => ~basic[i].expect_ok
                /\ basic[i].kind = "inq" <=> basic[i].id = "inq"

\* a plan with a name and a scan step, the clear-bonded-list step skipped
C27_Witness ==
    /\ C27_MasterBuilt
    /\ fn_in.flags.skip_steps = {"rmaad"}
    /\ C27_Ids(fn_out.plan) =
         <<"at", "role1", "cmode", "name", "pin", "uart", "init", "inq", "pair",
           "bind", "link", "reset">>

\* the peripheral steps in the order of the claim
C28_Order == <<"at", "orlg", "role0", "name", "pin", "uart", "addr">>

C28_FamilyA == fn_in.detection.module = "hc05"

\* whether the call asks for the step: the condition the claim gives for it,
\* and the step not being skipped
C28_Asked(id) ==
    /\ id \notin fn_in.flags.skip_steps
    /\ CASE id = "orlg" -> C28_FamilyA /\ ~fn_in.flags.no_orlg
         [] id = "role0" -> C28_FamilyA
         [] id = "name" -> fn_in.name # <<>>
         [] id = "pin" -> fn_in.pin # <<>>
         [] OTHER -> TRUE

\* a plan was returned for a call with the basic sequence enabled
C28_SlaveBuilt ==
    fn_out.called = "build_slave_plan" /\ fn_out.ok /\ fn_in.flags.basic

\* C28: with basic enabled, the plan build_slave_plan returns has the
\* peripheral steps in the order liveness (critical), factory reset
\* (optional; family A, unless disabled), force-peripheral-role (critical;
\* family A), set-name and set-pin (iff given), set-bit-rate (critical, in
\* the form of the family), read-address, each present exactly when its
\* condition holds and it is not skipped, followed by the extra commands; a
\* family B plan has neither factory reset nor force-role, and skipping
\* never reorders.
C28_SlavePlanOrder ==
    C28_SlaveBuilt =>
        LET plan == fn_out.plan
            basic == C27_BasicPart(plan)
        IN /\ C27_Ids(basic) = SelectSeq(C28_Order, C28_Asked)
           /\ plan = basic \o SubSeq(plan, Len(basic) + 1, Len(plan))
           /\ Len(plan) = Len(basic) + Len(fn_in.flags.extra_slave_cmds)
           /\ \A i \in 1..Len(basic) :
                /\ basic[i].id \in {"at", "role0", "uart"} =>
                     (basic[i].critical /\ ~basic[i].optional)
                /\ basic[i].id = "orlg" => (basic[i].optional /\ ~basic[i].critical)
                /\ basic[i].id \in {"orlg", "role0"} => C28_FamilyA
                /\ basic[i].id = "uart" =>
                     basic[i].command[1] = (IF C28_FamilyA THEN "AT+UART=" ELSE "AT+BAUD")

\* a family B plan with a name, at a rate other than the default
C28_Witness ==
    /\ C28_SlaveBuilt
    /\ ~C28_FamilyA
    /\ fn_in.baud = 115200
    /\ C27_Ids(fn_out.plan) = <<"at", "name", "pin", "uart", "addr">>

\* the read-address steps of the peripheral plan returned
C29_AddrSteps ==
    IF fn_out.called = "build_slave_plan" /\ fn_out.ok
    THEN { i \in 1..Len(fn_out.plan) : fn_out.plan[i].id = "addr" }
    ELSE {}

C30_Cmds ==
    IF fn_in.called = "build_slave_plan" THEN fn_in.flags.extra_slave_cmds
    ELSE fn_in.flags.extra_master_cmds

\* a builder returned a plan
C30_Built == fn_out.called \in {"build_slave_plan", "build_master_plan"} /\ fn_out.ok

\* C30: the plan a builder returns ends with the operator's extra commands
\* of its role, in the operator's order and each once, flagged optional and
\* not critical, with the acknowledgement not required; every step before
\* them is a basic step; they are there whatever the skip set names, and
\* with the basic sequence disabled they are the whole plan.
C30_ExtrasAppended ==
    C30_Built =>
        LET plan == fn_out.plan
            n == Len(C30_Cmds)
            first == Len(plan) - n
        IN /\ first >= 0
           /\ \A i \in 1..first : plan[i].category = "basic"
           /\ \A k \in 1..n :
                /\ plan[first + k].command = C30_Cmds[k]
                /\ plan[first + k].category = "extra"
                /\ plan[first + k].optional /\ ~plan[first + k].critical
                /\ ~plan[first + k].expect_ok
           /\ ~fn_in.flags.basic => first = 0

\* two different extra commands after the basic steps of a controller plan
C30_Witness ==
    /\ C30_Built /\ fn_in.called = "build_master_plan"
    /\ fn_in.flags.basic
    /\ Len(C30_Cmds) = 2 /\ C30_Cmds[1] # C30_Cmds[2]
    /\ Len(fn_out.plan) > 2
    /\ fn_out.plan[Len(fn_out.plan)].command = C30_Cmds[2]

\* the skip set names an extra command, which is in the plan all the same
C30_SkipNamesExtra ==
    /\ C30_Built /\ fn_in.called = "build_slave_plan"
    /\ "extra-slave-1" \in fn_in.flags.skip_steps
    /\ Len(C30_Cmds) = 1
    /\ fn_out.plan[Len(fn_out.plan)].id = "extra-slave-1"

(***************************************************************************)
(* Properties of detect_module                                             *)
(***************************************************************************)
\* the reply of an attempt contains OK, in any letter case
C23_HasOK(ev) ==
    ev.kind = "reply" /\ \E i \in 1..Len(ev.text) : ev.text[i] \in {"OK", "Ok", "oK", "ok"}

\* the port opens at the profile and AT is acknowledged within its two tries
C23_AtAcked(b) ==
    /\ ~b.stop /\ b.open
    /\ \/ C23_HasOK(b.at[1])
       \/ b.at[1].kind = "reply" /\ C23_HasOK(b.at[2])

\* the reply to the classification query contains the marker ROLE, in any
\* letter case
C23_HasMarker(ev) ==
    ev.kind = "reply"
    /\ \E i \in 1..Len(ev.text) : ev.text[i] \in {"+ROLE:0", "+role:0", "+Role:0"}

\* the port could not be opened at the profile
C23_CannotOpen(b) == ~b.stop /\ ~b.open

\* a serial I/O error interrupted the classification query
C23_QueryInterrupted(b) == C23_AtAcked(b) /\ b.role.kind = "exc"

C23_Family(b) == IF C23_HasMarker(b.role) THEN "hc05" ELSE "hc06"

\* the profiles probed: 1..C23_Probed
C23_Probed == Len(fn_out.probes)

\* the part of the claim every call satisfies: the profiles are probed in
\* order from the first, and none is probed after one that acknowledged
C23_FirstAcknowledging ==
    /\ C23_Probed \in 1..Len(DETECTION_PROFILES)
    /\ \A k \in 1..(C23_Probed - 1) :
         fn_out.probes[k].opened /\ ~C23_AtAcked(fn_in.env[k])
    /\ fn_out.result # NoDetection => fn_out.result.profile = C23_Probed

\* C23 as stated: detect_module probes the profiles in order and returns a
\* result for the first profile whose AT is acknowledged within two tries,
\* probing none after it; the family is A iff the reply to the role query
\* contains ROLE in any letter case, B otherwise (an empty reply included);
\* it returns none iff no profile acknowledges or the port cannot be opened.
C23_DetectContract ==
    fn_out.called = "detect_module" =>
        LET env == fn_in.env
            n == C23_Probed
        IN /\ C23_FirstAcknowledging
           /\ C23_AtAcked(env[n]) => fn_out.result = Detected(C23_Family(env[n]), n)
           /\ fn_out.result = NoDetection <=>
                \/ \A k \in 1..n : ~C23_AtAcked(env[k])
                \/ \E k \in 1..n : C23_CannotOpen(env[k])

\* C23, amended: the same, when no serial I/O error interrupts the role
\* query of the acknowledging profile; when one does, detect_module returns
\* none although that profile acknowledged.
C23_DetectContractUninterrupted ==
    fn_out.called = "detect_module" =>
        LET env == fn_in.env
            n == C23_Probed
        IN /\ C23_FirstAcknowledging
           /\ (C23_AtAcked(env[n]) /\ ~C23_QueryInterrupted(env[n])) =>
                fn_out.result = Detected(C23_Family(env[n]), n)
           /\ fn_out.result = NoDetection <=>
                \/ \A k \in 1..n : ~C23_AtAcked(env[k])
                \/ \E k \in 1..n : C23_CannotOpen(env[k])
                \/ C23_QueryInterrupted(env[n])

\* the first profile is silent, the second acknowledges at the second try
\* and in lower case: family A at the second profile, the third not probed
C23_Witness ==
    /\ fn_out.called = "detect_module"
    /\ C23_Probed = 2
    /\ ~C23_AtAcked(fn_in.env[1])
    /\ fn_in.env[2].at[2] = Reply(<<"ok">>) /\ fn_in.env[2].role = Reply(<<"+role:0">>)
    /\ C23_AtAcked(fn_in.env[3])
    /\ fn_out.result = Detected("hc05", 2)

(***************************************************************************)
(* Properties of cancellation                                              *)
(***************************************************************************)
\* the attempts of an exchange that found the stop event set, among the
\* attempts in events that the exchange begins
C21_FoundSet(events, retries, expect_ok) ==
    { k \in 1..retries :
        /\ events[k].kind = "cancel"
        /\ \A j \in 1..(k - 1) :
             events[j].kind = "reply" /\ expect_ok /\ ~C23_HasOK(events[j]) }

\* the exchange: the attempt that finds the event set writes nothing and
\* returns failure, so the writes are those of the attempts before it
C21_Exchange ==
    fn_out.called = "send_command" =>
        \A k \in C21_FoundSet(fn_in.events, fn_in.retries, fn_in.expect_ok) :
            ~fn_out.ok /\ fn_out.cancel /\ fn_out.writes = k - 1

\* the most writes a step makes: its retries, or one write of each form
C21_Budget(step) ==
    IF step.id = "pin" \/ (step.id = "name" /\ fn_in.module = "hc06") THEN 2
    ELSE step.retries

\* the executor: a turn entered with the event set returns failure, writes
\* nothing and leaves the context; a turn that finds it set on the way made
\* fewer writes than its budget; nothing follows the return
C21_Executor ==
    /\ (PhaseRunning /\ stop) =>
         /\ fn_out'.returned = "False"
         /\ fn_out'.last.cancel /\ fn_out'.last.writes = 0 /\ ~fn_out'.last.ok
         /\ context' = context /\ transport' = transport
    /\ (PhaseRunning /\ fn_out'.last.cancel) =>
         (stop' /\ fn_out'.last.writes < C21_Budget(fn_in.steps[idx]))
    /\ (fn_in.called = "_run_plan_on_port" /\ stop) => stop'
    /\ PhaseReturned => UNCHANGED vars

\* the detector: the profile at which the event is found set is the last
\* turn of the loop; found set before the profile, the port is not opened,
\* nothing is written and the result is none; found set in the AT exchange,
\* the result is none and the writes are those of the tries before
C21_Detector ==
    fn_out.called = "detect_module" =>
        LET n == Len(fn_out.probes) IN
        \A k \in 1..n :
            LET b == fn_in.env[k]
                probe == fn_out.probes[k]
            IN /\ b.stop =>
                    (k = n /\ ~probe.opened /\ probe.writes = 0
                     /\ fn_out.result = NoDetection)
               /\ (~b.stop /\ b.open) =>
                    \A j \in C21_FoundSet(b.at, 2, TRUE) :
                        k = n /\ probe.writes = j - 1 /\ fn_out.result = NoDetection
               /\ (C23_AtAcked(b) /\ b.role.kind = "cancel") =>
                    (k = n /\ probe.writes = IF C23_HasOK(b.at[1]) THEN 1 ELSE 2)
               /\ probe.cancel => (k = n /\ stop)

\* C21: once the stop event is set no further command is written: the
\* exchange checks it before every attempt, the executor before every step
\* and the detector before every profile, each returning failure (or none)
\* without writing; nothing is written afterwards to undo what was applied.
C21_NoWriteAfterStop ==
    /\ []C21_Exchange
    /\ [][C21_Executor]_vars
    /\ []C21_Detector

\* the event was set between two steps of a peripheral plan: the address
\* captured before stays, the next step is not written, the phase fails
C21_Witness ==
    /\ PhaseReturned /\ fn_out.returned = "False"
    /\ stop
    /\ LastTurn.cancel /\ LastTurn.writes = 0
    /\ LastTurn.idx > 1 /\ LastTurn.step.category = "extra"
    /\ context.slave_addr # <<>>
    /\ transport = {"plan"}

(***************************************************************************)
(* Properties of run_setup                                                 *)
(***************************************************************************)
\* the commands of a family B configuration that set the name or the pin
C26_ConfigCommands == {"AT+NAME", "AT+NAME=", "AT+PIN", "AT+PSWD="}

\* run_setup went on to configure a family B module with a rate that is
\* not in the supported map
C26_UnsupportedCall ==
    /\ fn_out.called = "run_setup"
    /\ fn_out.module = "hc06"
    /\ fn_in.baud \notin DOMAIN HC06_BAUD_MAP

\* C26: when run_setup configures a family B module with a bit rate that
\* is not in the supported map, it fails and no name or pin command has
\* been written to the device.
C26_UnsupportedRateWritesNothing ==
    C26_UnsupportedCall =>
        /\ ~fn_out.ok
        /\ \A i \in 1..Len(fn_out.sent) : fn_out.sent[i] \notin C26_ConfigCommands

\* what the code does: such a call fails, and the rate is reported after
\* the name and the pin that were asked for have been acknowledged
C26_RejectedAfterNameAndPin ==
    (C26_UnsupportedCall /\ fn_out.rejected) =>
        /\ ~fn_out.ok
        /\ fn_in.name # <<>> =>
               \E i \in 1..Len(fn_out.sent) : fn_out.sent[i] \in {"AT+NAME", "AT+NAME="}
        /\ fn_in.pin # <<>> =>
               \E i \in 1..Len(fn_out.sent) : fn_out.sent[i] \in {"AT+PIN", "AT+PSWD="}


(***************************************************************************)
(* Properties of the wait loops                                            *)
(***************************************************************************)
\* C22: the stop event is checked at the top of every wait loop: no turn of
\* a wait loop runs its body (reads, or sleeps on) with the stop event set.
C22_StopEndsWait ==
    fn_out.called \in {"read_response", "_inquire_addresses"} => fn_out.late = 0

\* what the code does: the scan loop ends at its next turn, the read loop
\* of an exchange does not
C22_StopEndsScan ==
    fn_out.called = "_inquire_addresses" => fn_out.late = 0


(***************************************************************************)
(* Properties of termination                                               *)
(***************************************************************************)
\* a wait loop takes no turn once its timeout (its window) has elapsed, so
\* it returns before the timeout plus the length of one turn
C25_WaitBounded ==
    fn_out.called \in {"read_response", "_inquire_addresses"} =>
        /\ fn_out.elapsed < fn_in.timeout + TurnTicks
        /\ fn_out.at = "loop" => fn_out.elapsed - TurnTicks < fn_in.timeout

\* the plan executor's position stays within the plan it runs
C25_PlanBounded ==
    /\ pc = "exec_slave" => idx \in 1..Len(slave_plan)
    /\ pc = "exec_master" => idx \in 1..Len(master_plan)

\* the call has returned: a wait loop has ended, run_pair has returned
\* True or False
C25_Returned ==
    IF fn_out.called \in {"read_response", "_inquire_addresses"}
    THEN fn_out.at = "returned"
    ELSE pc = "done" /\ result \in {"PASS", "FAIL"}

C39_Cancelled ==
    /\ fn_out.called = "detect_module"
    /\ \E k \in 1..Len(fn_out.probes) : fn_out.probes[k].cancel

\* C39: a detection during which the stop event is found set before the
\* classification query is written returns None, not a family.
C39_CancelledReturnsNone ==
    C39_Cancelled => fn_out.result = NoDetection

\* what the code does: found set before a profile or inside the AT exchange,
\* the result is None; found set by the AT+ROLE? exchange, which then writes
\* nothing and returns an empty response, the result is family B
C39_CancelledAtQueryIsFamilyB ==
    C39_Cancelled =>
        LET n == Len(fn_out.probes)
            b == fn_in.env[n]
        IN IF ~b.stop /\ b.open /\ send_command(TRUE, 2, b.at).ok
           THEN fn_out.result = Detected("hc06", n)
           ELSE fn_out.result = NoDetection

(***************************************************************************)
(* Properties of the scan step                                             *)
(***************************************************************************)
\* the executor takes the turn of a scan-kind step, and the step is entered
\* (the stop event is not found set before it)
C31_ScanStepTaken ==
    /\ fn_out.called = "_run_plan_on_port"
    /\ fn_out.returned = "running"
    /\ fn_in.steps[idx].kind = "inq"
    /\ fn_out' # fn_out
    /\ ~fn_out'.last.cancel

\* C31: a scan-kind step entered with an address in the context succeeds,
\* writes nothing and leaves the context as it is; entered without one, it
\* succeeds iff the scan collected at least one address and the selection
\* is not None, and then the context holds exactly the selection; when it
\* fails the context is unchanged, its address unknown.
C31_ScanStep ==
    [][C31_ScanStepTaken =>
         LET t == fn_out'.last IN
         IF context.slave_addr # <<>>
         THEN t.ok /\ t.writes = 0 /\ ~t.scanned /\ context' = context
         ELSE /\ t.ok <=> (t.scanned /\ t.scan # <<>> /\ t.selected # <<>>)
              /\ t.ok => context' = [context EXCEPT !.slave_addr = t.selected]
              /\ ~t.ok => context' = context /\ context'.slave_addr = <<>>]_vars

\* a scan that collected two addresses, of which the second was selected and
\* is now the address of the context
C31_Witness ==
    /\ fn_out.called = "_run_plan_on_port"
    /\ fn_out.last.step.kind = "inq"
    /\ fn_out.last.ok
    /\ Len(fn_out.last.scan) = 2
    /\ fn_out.last.selected = fn_out.last.scan[2]
    /\ fn_out.last.scan[1] # fn_out.last.scan[2]
    /\ context.slave_addr = fn_out.last.selected

(***************************************************************************)
(* Properties of the steps with family-specific command forms              *)
(***************************************************************************)
C32_Steps == {"name", "pin", "uart", "addr"}

\* the last turn was that of a step in ids, which wrote at least one command
\* and was not ended by the stop event or a SerialException
C32_Exchanged(ids) ==
    /\ fn_out.called = "_run_plan_on_port"
    /\ fn_out.last.step.id \in ids
    /\ fn_out.last.forms # <<>>
    /\ ~fn_out.last.cancel /\ ~fn_out.last.exc

\* the primary form, and a fallback form exactly when the primary form was
\* not acknowledged; success iff one of the forms was acknowledged
C32_PrimaryThenFallback ==
    LET t == fn_out.last IN
    /\ Len(t.forms) = (IF t.forms[1] THEN 1 ELSE 2)
    /\ t.ok <=> \E i \in 1..Len(t.forms) : t.forms[i]

\* the steps that have a fallback form: the pin step, and the name step of
\* a family B module
C32_WithFallback ==
    fn_out.last.step.id = "pin"
    \/ (fn_out.last.step.id = "name" /\ fn_in.module = "hc06")

\* C32 as stated: each of the name, pin, bit-rate and read-address steps
\* sends a primary form and, only if it is not acknowledged, a fallback
\* form in the same step; it succeeds iff one of them is acknowledged.
C32_EveryStepHasFallback ==
    C32_Exchanged(C32_Steps) => C32_PrimaryThenFallback

\* C32, amended: the pin step and the name step of a family B module do so;
\* the name step of a family A module, the bit-rate step and the
\* read-address step send one family-specific form and no fallback; name
\* and bit rate succeed iff it is acknowledged, the read-address step iff
\* an address is parsed from the reply or the step is not critical.
C32_FallbackForPinAndFamilyBName ==
    C32_Exchanged(C32_Steps) =>
        LET t == fn_out.last IN
        IF C32_WithFallback THEN C32_PrimaryThenFallback
        ELSE /\ Len(t.forms) = 1
             /\ IF t.step.id = "addr"
                THEN t.ok <=> (t.forms[1] \/ ~t.step.critical)
                ELSE t.ok <=> t.forms[1]

\* a family B name step whose primary form was not acknowledged and whose
\* fallback form was
C32_Witness ==
    /\ C32_Exchanged({"name"})
    /\ fn_in.module = "hc06"
    /\ fn_out.last.forms = <<FALSE, TRUE>>
    /\ fn_out.last.ok

(***************************************************************************)
(* Properties of the context's bind and link flags                         *)
(***************************************************************************)
\* the step of run_pair being taken is the controller phase's turn for the
\* basic step with this id, with dry-run off, and its command is acknowledged
C33_AckedControllerStep(id) ==
    /\ pc = "exec_master"
    /\ master_plan[idx].id = id
    /\ master_plan[idx].category = "basic"
    /\ ~master_flags.dry_run
    /\ id \notin acked /\ id \in acked'

\* a flag of the context is raised only by such a step, and is never lowered
C33_FlagStep ==
    /\ context.master_bind_ok => context'.master_bind_ok
    /\ context.master_link_ok => context'.master_link_ok
    /\ (~context.master_bind_ok /\ context'.master_bind_ok) =>
           C33_AckedControllerStep("bind")
    /\ (~context.master_link_ok /\ context'.master_link_ok) =>
           C33_AckedControllerStep("link")

\* C33: the bind (link) flag of the context is false in a new context, is
\* never reset, and is set only when the controller phase executes the step
\* with id bind (link) and its command is acknowledged: never by the
\* peripheral phase, a dry run, an unacknowledged command or an extra command.
C33_FlagsOnlyByAckedControllerStep ==
    /\ ~context.master_bind_ok /\ ~context.master_link_ok
    /\ [][C33_FlagStep]_vars

\* the link flag is set, in an attempt that ran extra controller commands
C33_Witness ==
    /\ context.master_bind_ok /\ context.master_link_ok
    /\ flags.extra_master_cmds # <<>>
    /\ pc = "done"

(***************************************************************************)
(* Properties of the address the controller is bound to                    *)
(***************************************************************************)
\* the negotiate, bind and link commands for an address, in its comma form
C36_Form(id, addr) ==
    CASE id = "pair" -> <<"AT+PAIR=">> \o addr \o <<",20">>
      [] id = "bind" -> <<"AT+BIND=">> \o addr
      [] id = "link" -> <<"AT+LINK=">> \o addr

\* the controller phase is at a negotiate, bind or link step of its plan
C36_AtAddressStep ==
    /\ pc = "exec_master"
    /\ master_plan[idx].id \in {"pair", "bind", "link"}
    /\ master_plan[idx].category = "basic"

\* at such a step the command that is written names the address the context
\* holds; with no address in the context the step's text still has the
\* placeholder, and nothing is written for it
C36_CommandNamesContextAddress ==
    C36_AtAddressStep =>
        IF context.slave_addr # <<>>
        THEN WrittenCommand(master_plan[idx], context)
                = C36_Form(master_plan[idx].id, context.slave_addr[2])
        ELSE HasPlaceholder(master_plan[idx].command)

\* an address in the context is not changed after the peripheral phase
C36_AddressKept ==
    (pc # "exec_slave" /\ context.slave_addr # <<>>) =>
        context'.slave_addr = context.slave_addr

\* C36: every negotiate, bind and link command written to the controller
\* names the address held in the context at that moment, and once an
\* address is known the controller phase never changes it: the commands of
\* one attempt all name the same address, the one captured from the
\* peripheral when there is one.
C36_OneAddress ==
    [][C36_CommandNamesContextAddress /\ C36_AddressKept]_vars

\* the link step is reached with the address the scan selected, the plan's
\* commands having the placeholder
C36_Witness ==
    /\ C36_AtAddressStep
    /\ master_plan[idx].id = "link"
    /\ HasPlaceholder(master_plan[idx].command)
    /\ context.slave_addr # <<>>
    /\ "bind" \in acked

(***************************************************************************)
(* Properties of the order of bind and link                                *)
(***************************************************************************)
\* C37: in every state of an attempt, the context's link flag implies its
\* bind flag, and a link command is recorded as acknowledged only in an
\* attempt in which the bind command was acknowledged before.
C37_LinkImpliesBind ==
    /\ context.master_link_ok => context.master_bind_ok
    /\ "link" \in acked => "bind" \in acked

\* the link flag is set in an attempt whose skip set and extra commands are
\* not empty
C37_Witness ==
    /\ context.master_link_ok
    /\ flags.skip_steps # {}
    /\ flags.extra_master_cmds # <<>>


(***************************************************************************)
(* Properties of a dry run of run_pair                                     *)
(***************************************************************************)
\* a dry run whose detections and plan builds succeeded reaches the verdict
C38_DryRunAtVerdict == pc = "after_master" /\ flags.dry_run

C38_DryRunFailsWhenLinkRequired ==
    [][(C38_DryRunAtVerdict /\ pc' = "done")
       => (/\ transport' \cap {"slave_plan", "master_plan"} = {}
           /\ ~context'.master_link_ok
           /\ result' = (IF require_link THEN "FAIL" ELSE "PASS"))]_vars


(***************************************************************************)
(* send_command against a device that answers in its own time.  The host   *)
(* calls send_command for one command after another on the same port, with *)
(* stop_event = None; the device answers a command it received at most     *)
(* once, at any later moment, and its bytes reach the port's input buffer  *)
(* whatever the host is doing.  A try is numbered by the count of          *)
(* reset_input_buffer calls made so far.                                   *)
(* fn_in  = [called, cmds: how many calls are made, retries]               *)
(* fn_out = [called, at: the host's position, cmd, attempt, resets,        *)
(*           buffer: the bytes waiting in the port, each reply a record    *)
(*           [to: the try it answers, text, arrived: the resets made when  *)
(*           it arrived], chunks: what read_response has collected,        *)
(*           owed: the tries the device received and has not answered,     *)
(*           returns: what each call returned, with the try it ended on]   *)
(***************************************************************************)
MaxCmds == 2

InitReprime ==
    /\ NotRunning
    /\ pc = "fn"
    /\ \E cmds \in 1..MaxCmds, retries \in 1..MaxRetries :
         /\ fn_in = [called |-> "send_command", cmds |-> cmds, retries |-> retries]
         /\ fn_out = [called |-> "send_command", at |-> "reset", cmd |-> 1,
                      attempt |-> 1, resets |-> 0, buffer |-> <<>>, chunks |-> <<>>,
                      owed |-> {}, returns |-> <<>>]

\* what the host goes on with when a call has returned ok
Returned35(ok) ==
    [fn_out EXCEPT !.returns = Append(@, [cmd |-> fn_out.cmd, try |-> fn_out.resets,
                                           ok |-> ok, response |-> fn_out.chunks]),
                   !.at = IF fn_out.cmd < fn_in.cmds THEN "reset" ELSE "returned",
                   !.cmd = IF fn_out.cmd < fn_in.cmds THEN @ + 1 ELSE @,
                   !.attempt = 1, !.chunks = <<>>]

\* line 121: ser.reset_input_buffer() discards what is waiting in the port
HostReset ==
    /\ pc = "fn" /\ fn_in.called = "send_command" /\ "resets" \in DOMAIN fn_out
    /\ fn_out.at = "reset"
    /\ fn_out' = [fn_out EXCEPT !.at = "sleep", !.resets = @ + 1, !.buffer = <<>>]
    /\ UNCHANGED <<args, flags, slave_flags, master_flags, slave_port, master_port,
                   slave_detect, master_detect, slave_plan, master_plan, require_link,
                   context, pc, idx, result, msg, stop, pair_cache, transport, acked,
                   io_fault, unacked, fn_in>>

\* lines 122-131: time.sleep(0.05) is over; the command is written, or the
\* write raises SerialException and the call returns False with the
\* response of the try before
HostWrite ==
    /\ pc = "fn" /\ fn_in.called = "send_command" /\ "resets" \in DOMAIN fn_out
    /\ fn_out.at = "sleep"
    /\ \E written \in BOOLEAN :
         IF written
         THEN fn_out' = [fn_out EXCEPT !.at = "read", !.chunks = <<>>,
                                       !.owed = @ \cup {fn_out.resets}]
         ELSE fn_out' = Returned35(FALSE)
    /\ UNCHANGED <<args, flags, slave_flags, master_flags, slave_port, master_port,
                   slave_detect, master_detect, slave_plan, master_plan, require_link,
                   context, pc, idx, result, msg, stop, pair_cache, transport, acked,
                   io_fault, unacked, fn_in>>

\* the device's answer to a command it received reaches the input buffer
DeviceReplies ==
    /\ pc = "fn" /\ fn_in.called = "send_command" /\ "resets" \in DOMAIN fn_out
    /\ \E to \in fn_out.owed, text \in {<<"OK", "\r\n">>, <<"ERROR:(0)", "\r\n">>} :
         fn_out' = [fn_out EXCEPT
                      !.owed = @ \ {to},
                      !.buffer = Append(@, [to |-> to, text |-> text,
                                            arrived |-> fn_out.resets])]
    /\ UNCHANGED <<args, flags, slave_flags, master_flags, slave_port, master_port,
                   slave_detect, master_detect, slave_plan, master_plan, require_link,
                   context, pc, idx, result, msg, stop, pair_cache, transport, acked,
                   io_fault, unacked, fn_in>>

\* lines 86-91: a turn of read_response that gets data takes all that waits
ReadData ==
    /\ pc = "fn" /\ fn_in.called = "send_command" /\ "resets" \in DOMAIN fn_out
    /\ fn_out.at = "read"
    /\ fn_out.buffer # <<>>
    /\ fn_out' = [fn_out EXCEPT !.chunks = @ \o fn_out.buffer, !.buffer = <<>>]
    /\ UNCHANGED <<args, flags, slave_flags, master_flags, slave_port, master_port,
                   slave_detect, master_detect, slave_plan, master_plan, require_link,
                   context, pc, idx, result, msg, stop, pair_cache, transport, acked,
                   io_fault, unacked, fn_in>>

\* lines 85, 92-93 and 133-149: read_response returns, at its timeout or
\* after a quiet gap behind some data; send_command looks for OK in the
\* response, returns True, or tries again after time.sleep(0.25), or returns
\* False when the tries are used up
ReadEnds ==
    /\ pc = "fn" /\ fn_in.called = "send_command" /\ "resets" \in DOMAIN fn_out
    /\ fn_out.at = "read"
    /\ LET ok == \E i \in DOMAIN fn_out.chunks : ContainsOK(fn_out.chunks[i].text) IN
       IF ok THEN fn_out' = Returned35(TRUE)
       ELSE IF fn_out.attempt < fn_in.retries
       THEN fn_out' = [fn_out EXCEPT !.at = "reset", !.attempt = @ + 1]
       ELSE fn_out' = Returned35(FALSE)
    /\ UNCHANGED <<args, flags, slave_flags, master_flags, slave_port, master_port,
                   slave_detect, master_detect, slave_plan, master_plan, require_link,
                   context, pc, idx, result, msg, stop, pair_cache, transport, acked,
                   io_fault, unacked, fn_in>>

SpecReprime ==
    InitReprime /\ [][HostReset \/ HostWrite \/ DeviceReplies \/ ReadData \/ ReadEnds]_vars

(***************************************************************************)
(* Properties of the crediting of replies                                  *)
(***************************************************************************)
\* the calls of send_command that returned True
C35_Acknowledged == {i \in DOMAIN fn_out.returns : fn_out.returns[i].ok}

\* C35: a call of send_command returns True only on an OK the device sent in
\* answer to the try the call ended on: bytes answering an earlier command
\* or an earlier try are never counted as its acknowledgement.
C35_ReplyCreditedToItsCommand ==
    \A i \in C35_Acknowledged :
      LET r == fn_out.returns[i] IN
      \E k \in DOMAIN r.response :
        ContainsOK(r.response[k].text) /\ r.response[k].to = r.try

\* what the re-priming does give: bytes that reached the port before the
\* reset of a try are not in the response read_response returns in that try
C35_NothingFromBeforeTheReset ==
    /\ \A i \in C35_Acknowledged :
         LET r == fn_out.returns[i] IN
         \A k \in DOMAIN r.response : r.response[k].arrived = r.try
    /\ fn_out.at = "read"
         => \A k \in DOMAIN fn_out.chunks : fn_out.chunks[k].arrived = fn_out.resets

\* an OK answering the first command is the whole response on which the
\* second command was acknowledged
C35_LateOkCredited ==
    \E i \in C35_Acknowledged :
      LET r == fn_out.returns[i] IN
      /\ r.cmd = 2
      /\ \A k \in DOMAIN r.response : r.response[k].to < r.try


(***************************************************************************)
(* The GUI host's worker control (hc_setup_gui.py, SetupApp).  The button  *)
(* commands and the completion handler run on the Tk main thread, one at a *)
(* time; a worker thread runs its task, queues its completion handler with *)
(* root.after(0, ...) in its finally clause, and only then ends.  Workers  *)
(* and their stop events are numbered in the order they are created; 0 is  *)
(* None.                                                                   *)
(* fn_in  = [called]                                                       *)
(* fn_out = [called, worker: self.worker, stop_event: self.stop_event,     *)
(*           controls: the state of the start and the stop buttons,        *)
(*           status: status_var, threads: where each worker thread is      *)
(*           ("task", "exiting" once the handler is queued, "dead"),       *)
(*           modes: the task of each worker, events: the stop events that  *)
(*           are set, queue: the completion handlers queued on the main    *)
(*           loop, seen: the values of self.stop_event each worker read,   *)
(*           starts: for each accepted start request the threads alive,    *)
(*           finished: for each handler that ran, the worker that queued   *)
(*           it and the self.worker and self.stop_event it cleared]        *)
(***************************************************************************)
MaxWorkers == 2

WorkerModes == {"detect", "single-setup", "pair-detect", "pair-run"}

MutControlsStartStaysOn(running) == [start |-> TRUE, stop |-> running]

\* lines 835-849: the four start buttons and the two stop buttons
_set_controls_running(running) == [start |-> ~running, stop |-> running]

\* lines 58-59, 318-324, 462-466: the application after construction
InitGui ==
    /\ NotRunning
    /\ pc = "fn"
    /\ fn_in = [called |-> "SetupApp"]
    /\ fn_out = [called |-> "SetupApp", worker |-> 0, stop_event |-> 0,
                 controls |-> _set_controls_running(FALSE), status |-> "",
                 threads |-> <<>>, modes |-> <<>>, events |-> {}, queue |-> <<>>,
                 seen |-> <<>>, starts |-> <<>>, finished |-> <<>>]

\* the threads whose is_alive() is True
AliveWorkers == {i \in DOMAIN fn_out.threads : fn_out.threads[i] # "dead"}

\* lines 657-679 and 851-882: a start button's command (a disabled button
\* does not call it) with parameters that validate, and _start_worker
StartWorker ==
    /\ pc = "fn" /\ fn_in.called = "SetupApp"
    /\ fn_out.controls.start
    /\ Len(fn_out.threads) < MaxWorkers
    /\ \E mode \in WorkerModes :
         IF fn_out.worker # 0 /\ fn_out.worker \in AliveWorkers
         THEN UNCHANGED fn_out
         ELSE LET new == Len(fn_out.threads) + 1 IN
              fn_out' = [fn_out EXCEPT
                           !.stop_event = new,
                           !.controls = _set_controls_running(TRUE),
                           !.status = "Running...",
                           !.worker = new,
                           !.threads = Append(@, "task"),
                           !.modes = Append(@, mode),
                           !.seen = Append(@, {}),
                           !.starts = Append(@, AliveWorkers)]
    /\ UNCHANGED <<args, flags, slave_flags, master_flags, slave_port, master_port,
                   slave_detect, master_detect, slave_plan, master_plan, require_link,
                   context, pc, idx, result, msg, stop, pair_cache, transport, acked,
                   io_fault, unacked, fn_in>>

\* lines 681-685: on_stop, the command of the stop buttons
OnStop ==
    /\ pc = "fn" /\ fn_in.called = "SetupApp"
    /\ fn_out.controls.stop
    /\ fn_out.stop_event # 0
    /\ fn_out.stop_event \notin fn_out.events
    /\ fn_out' = [fn_out EXCEPT !.events = @ \cup {fn_out.stop_event},
                                !.status = "Cancelling..."]
    /\ UNCHANGED <<args, flags, slave_flags, master_flags, slave_port, master_port,
                   slave_detect, master_detect, slave_plan, master_plan, require_link,
                   context, pc, idx, result, msg, stop, pair_cache, transport, acked,
                   io_fault, unacked, fn_in>>

\* lines 895-1103: the task passes stop_event=self.stop_event to the core,
\* reading the attribute each time
WorkerReadsStop ==
    /\ pc = "fn" /\ fn_in.called = "SetupApp"
    /\ \E i \in DOMAIN fn_out.threads :
         /\ fn_out.threads[i] = "task"
         /\ fn_out.stop_event \notin fn_out.seen[i]
         /\ fn_out' = [fn_out EXCEPT !.seen[i] = @ \cup {fn_out.stop_event}]
    /\ UNCHANGED <<args, flags, slave_flags, master_flags, slave_port, master_port,
                   slave_detect, master_detect, slave_plan, master_plan, require_link,
                   context, pc, idx, result, msg, stop, pair_cache, transport, acked,
                   io_fault, unacked, fn_in>>

\* lines 864-879: the task returns or raises; the finally clause queues
\* the completion handler
WorkerEnds ==
    /\ pc = "fn" /\ fn_in.called = "SetupApp"
    /\ \E i \in DOMAIN fn_out.threads, success \in BOOLEAN :
         /\ fn_out.threads[i] = "task"
         /\ fn_out' = [fn_out EXCEPT
                         !.threads[i] = "exiting",
                         !.queue = Append(@, [of |-> i, success |-> success])]
    /\ UNCHANGED <<args, flags, slave_flags, master_flags, slave_port, master_port,
                   slave_detect, master_detect, slave_plan, master_plan, require_link,
                   context, pc, idx, result, msg, stop, pair_cache, transport, acked,
                   io_fault, unacked, fn_in>>

\* the thread's function has returned
WorkerExits ==
    /\ pc = "fn" /\ fn_in.called = "SetupApp"
    /\ \E i \in DOMAIN fn_out.threads :
         /\ fn_out.threads[i] = "exiting"
         /\ fn_out' = [fn_out EXCEPT !.threads[i] = "dead"]
    /\ UNCHANGED <<args, flags, slave_flags, master_flags, slave_port, master_port,
                   slave_detect, master_detect, slave_plan, master_plan, require_link,
                   context, pc, idx, result, msg, stop, pair_cache, transport, acked,
                   io_fault, unacked, fn_in>>

\* lines 884-889: _finish_worker, run by the main loop for the handler at
\* the head of its queue
FinishWorker ==
    /\ pc = "fn" /\ fn_in.called = "SetupApp"
    /\ fn_out.queue # <<>>
    /\ LET h == Head(fn_out.queue) IN
       fn_out' = [fn_out EXCEPT
                    !.queue = Tail(@),
                    !.controls = _set_controls_running(FALSE),
                    !.worker = 0,
                    !.stop_event = 0,
                    !.status = IF ~h.success /\ @ = "Running..." THEN "Failed" ELSE @,
                    !.finished = Append(@, [of |-> h.of, worker |-> fn_out.worker,
                                            stop_event |-> fn_out.stop_event])]
    /\ UNCHANGED <<args, flags, slave_flags, master_flags, slave_port, master_port,
                   slave_detect, master_detect, slave_plan, master_plan, require_link,
                   context, pc, idx, result, msg, stop, pair_cache, transport, acked,
                   io_fault, unacked, fn_in>>

SpecGui ==
    InitGui /\ [][StartWorker \/ OnStop \/ WorkerReadsStop \/ WorkerEnds
                  \/ WorkerExits \/ FinishWorker]_vars

(***************************************************************************)
(* Properties of the GUI host's worker control                             *)
(***************************************************************************)
\* the workers that are in their task, where the exchanges are made
C34_InTask == {i \in DOMAIN fn_out.threads : fn_out.threads[i] = "task"}

\* at most one worker is in its task, and while it is, self.worker and
\* self.stop_event are its own and it has read no other stop event
C34_OneWorkerInTask ==
    /\ Cardinality(C34_InTask) <= 1
    /\ \A i \in C34_InTask :
         fn_out.worker = i /\ fn_out.stop_event = i /\ fn_out.seen[i] \subseteq {i}

\* a completion handler clears the reference and the stop event of the
\* worker that queued it
C34_HandlerClearsItsOwn ==
    \A k \in DOMAIN fn_out.finished :
      LET f == fn_out.finished[k] IN f.worker = f.of /\ f.stop_event = f.of

\* C34 as stated: at most one worker is in its task; a start request is
\* accepted only when no worker thread is alive; a completion handler clears
\* only the reference and stop event of the worker that queued it.
C34_StartRefusedWhileAlive ==
    /\ C34_OneWorkerInTask
    /\ \A k \in DOMAIN fn_out.starts : fn_out.starts[k] = {}
    /\ C34_HandlerClearsItsOwn

\* C34, amended: at most one worker is in its task; a start request is
\* accepted only when no worker is in its task, and a thread that is alive
\* then has left its task and queued its completion handler, and the
\* handler has run; a completion handler clears only the reference and
\* stop event of the worker that queued it.
C34_OneWorkerAtATime ==
    /\ C34_OneWorkerInTask
    /\ \A k \in DOMAIN fn_out.starts :
         \A i \in fn_out.starts[k] :
           /\ i < k
           /\ \E j \in DOMAIN fn_out.finished : fn_out.finished[j].of = i
    /\ C34_HandlerClearsItsOwn

\* the second worker is in its task with its stop event set while the
\* thread of the first, whose handler has run, is still alive
C34_Witness ==
    /\ Len(fn_out.threads) >= 2
    /\ fn_out.threads[1] = "exiting"
    /\ fn_out.threads[2] = "task"
    /\ 2 \in fn_out.events
    /\ fn_out.finished # <<>>

====
